---- MODULE Spec2Model ----
(***************************************************************************)
(* Beam analysis engine (src/lib/beamAnalysis.ts).                         *)
(*                                                                         *)
(* Numbers.  The engine computes in IEEE-754 binary floating point.  A     *)
(* physical quantity is modelled as a binary floating-point number with a  *)
(* significand of Precision bits and an unbounded exponent: the record     *)
(* [m |-> mantissa, e |-> exponent] stands for m * 2^e, kept canonical     *)
(* (m odd, or m = 0 and e = 0) so that equal values are equal records.     *)
(* Every arithmetic operation computes the exact result and rounds it to   *)
(* the nearest representable value, ties to even, as the hardware does.    *)
(* Integer literals and loop counters of the program are exact.            *)
(***************************************************************************)
EXTENDS Integers, Sequences, FiniteSets, TLC

\* Bits of significand of the modelled floating-point format (53 in a double).
Precision == 6

----------------------------------------------------------------------------
(* Floating-point arithmetic *)

Pow2(n) == 2 ^ n

Abs(n) == IF n < 0 THEN -n ELSE n

Sgn(n) == IF n < 0 THEN -1 ELSE IF n > 0 THEN 1 ELSE 0

\* Number of bits of the natural number n < 2^31 (0 for 0), by binary search.
BitLen4(n) ==
  IF n < 4 THEN (IF n < 2 THEN n ELSE 2) ELSE (IF n < 8 THEN 3 ELSE 4)

BitLen8(n) == IF n < 16 THEN BitLen4(n) ELSE 4 + BitLen4(n \div 16)

BitLen16(n) == IF n < 256 THEN BitLen8(n) ELSE 8 + BitLen8(n \div 256)

BitLen(n) == IF n < 65536 THEN BitLen16(n) ELSE 16 + BitLen16(n \div 65536)

\* The canonical record of m * 2^e.
RECURSIVE Canon(_, _)
Canon(m, e) ==
  IF m = 0 THEN [m |-> 0, e |-> 0]
  ELSE IF m % 2 = 0 THEN Canon(m \div 2, e + 1)
  ELSE [m |-> m, e |-> e]

\* An exact integer of the program.
I(n) == Canon(n, 0)

\* The quotient q of a division by 2 * half with remainder r, moved to the
\* nearest integer, a tie to the even one.
Nearest(q, r, half) ==
  IF r > half \/ (r = half /\ q % 2 = 1) THEN q + 1 ELSE q

\* m * 2^e for a mantissa m of len bits, rounded to Precision bits.
RoundFrom(m, e, len) ==
  IF len <= Precision THEN Canon(m, e)
  ELSE Canon(Sgn(m) * Nearest(Abs(m) \div Pow2(len - Precision),
                              Abs(m) % Pow2(len - Precision),
                              Pow2(len - Precision - 1)),
             e + len - Precision)

\* The exponent reserved for the values that are not finite, as in the
\* IEEE encoding: with it, mantissa 1 is +Infinity, -1 is -Infinity, 0 is NaN.
SpecialExp == 1000000

Infinity == [m |-> 1, e |-> SpecialExp]
NegInfinity == [m |-> -1, e |-> SpecialExp]
NaN == [m |-> 0, e |-> SpecialExp]

\* The range of a number: a result of magnitude 2^MaxExponent or more is
\* infinite, and one below 2^MinExponent, the least positive number, is 0.
\* A mantissa has at most 31 bits, so an exponent well inside the range
\* settles it.
MaxExponent == 1024
MinExponent == -1074

Ranged(a) ==
  IF MinExponent < a.e /\ a.e + 31 <= MaxExponent THEN a
  ELSE IF a.m = 0 THEN a
  ELSE IF a.e + BitLen(Abs(a.m)) > MaxExponent
  THEN (IF a.m < 0 THEN NegInfinity ELSE Infinity)
  ELSE IF a.e + BitLen(Abs(a.m)) <= MinExponent THEN [m |-> 0, e |-> 0]
  ELSE a

\* The exact value m * 2^e rounded to Precision bits, nearest, ties to even.
Round(m, e) == Ranged(RoundFrom(m, e, BitLen(Abs(m))))

IsFinite(a) == a.e # SpecialExp
IsNaN(a) == a.e = SpecialExp /\ a.m = 0
IsInf(a) == a.e = SpecialExp /\ a.m # 0
Inf(sign) == IF sign < 0 THEN NegInfinity ELSE Infinity

Neg(a) == [m |-> -a.m, e |-> a.e]

\* a * b, rounded once.
Mul(a, b) ==
  IF IsFinite(a) /\ IsFinite(b) THEN Round(a.m * b.m, a.e + b.e)
  ELSE IF IsNaN(a) \/ IsNaN(b) \/ a.m = 0 \/ b.m = 0 THEN NaN
  ELSE Inf(Sgn(a.m) * Sgn(b.m))

AtLeast0(n) == IF n > 0 THEN n ELSE 0

\* sign * (na / nb) * 2^e, the quotient computed with k more bits and a sticky
\* bit.
Quotient(sign, na, nb, e, k) ==
  Round(sign * (2 * ((na * Pow2(k)) \div nb)
                + (IF (na * Pow2(k)) % nb = 0 THEN 0 ELSE 1)),
        e - k - 1)

\* a / b for finite a and b # 0, rounded once: the quotient is computed to
\* at least Precision + 2 bits and a sticky bit records a non-zero remainder.
DivFinite(a, b) ==
  IF a.m = 0 THEN [m |-> 0, e |-> 0]
  ELSE Quotient(Sgn(a.m) * Sgn(b.m), Abs(a.m), Abs(b.m), a.e - b.e,
                AtLeast0(Precision + 2 + BitLen(Abs(b.m)) - BitLen(Abs(a.m))))

\* a / b.  The model has one zero, so x / 0 takes the sign of x.
Div(a, b) ==
  IF IsFinite(a) /\ IsFinite(b)
  THEN IF b.m # 0 THEN DivFinite(a, b)
       ELSE IF a.m = 0 THEN NaN ELSE Inf(Sgn(a.m))
  ELSE IF IsNaN(a) \/ IsNaN(b) \/ (IsInf(a) /\ IsInf(b)) THEN NaN
  ELSE IF IsInf(a) THEN Inf(Sgn(a.m) * (IF b.m < 0 THEN -1 ELSE 1))
  ELSE [m |-> 0, e |-> 0]

\* Largest exponent gap for which two operands are added exactly; beyond it
\* the operand of smaller exponent lies below a quarter of the last place of
\* the other and cannot change the rounded sum.
AlignMax == 2 * Precision + 2

\* lo cannot change the rounded sum hi + lo, where hi.e >= lo.e.
Dropped(hi, lo) == lo.m = 0 \/ (hi.m # 0 /\ hi.e - lo.e > AlignMax)

\* hi + lo where hi.e >= lo.e.
AddAligned(hi, lo) ==
  Round(IF Dropped(hi, lo) THEN hi.m
        ELSE IF hi.m = 0 THEN lo.m
        ELSE hi.m * Pow2(hi.e - lo.e) + lo.m,
        IF Dropped(hi, lo) THEN hi.e ELSE lo.e)

AddFinite(a, b) ==
  IF a.m = 0 THEN AddAligned(b, a)
  ELSE IF b.m = 0 \/ a.e >= b.e THEN AddAligned(a, b)
  ELSE AddAligned(b, a)

\* a + b, rounded once.
Add(a, b) ==
  IF IsFinite(a) /\ IsFinite(b) THEN AddFinite(a, b)
  ELSE IF IsNaN(a) \/ IsNaN(b) THEN NaN
  ELSE IF IsInf(a) /\ IsInf(b) THEN (IF a.m = b.m THEN a ELSE NaN)
  ELSE IF IsInf(a) THEN a ELSE b

Sub(a, b) == Add(a, Neg(b))

\* The sign of a - b for finite a and b, exact.
CmpFinite(a, b) ==
  IF a.m = 0 THEN -Sgn(b.m)
  ELSE IF b.m = 0 THEN Sgn(a.m)
  ELSE IF Sgn(a.m) # Sgn(b.m) THEN Sgn(a.m)
  ELSE LET la == BitLen(Abs(a.m)) + a.e
           lb == BitLen(Abs(b.m)) + b.e
       IN IF la # lb THEN (IF la > lb THEN Sgn(a.m) ELSE -Sgn(a.m))
          ELSE LET e0 == IF a.e < b.e THEN a.e ELSE b.e
               IN Sgn(a.m * Pow2(a.e - e0) - b.m * Pow2(b.e - e0))

\* The sign of a - b for a and b that are not NaN.
Cmp(a, b) ==
  IF IsFinite(a) /\ IsFinite(b) THEN CmpFinite(a, b)
  ELSE IF IsInf(a) /\ IsInf(b) THEN Sgn(a.m - b.m)
  ELSE IF IsInf(a) THEN a.m ELSE -b.m

\* The comparisons of the language: each is false when an operand is NaN.
Ordered(a, b) == ~IsNaN(a) /\ ~IsNaN(b)
Lt(a, b) == Ordered(a, b) /\ Cmp(a, b) < 0
Le(a, b) == Ordered(a, b) /\ Cmp(a, b) <= 0
Gt(a, b) == Ordered(a, b) /\ Cmp(a, b) > 0
Ge(a, b) == Ordered(a, b) /\ Cmp(a, b) >= 0

\* Math.abs
MathAbs(a) == [m |-> Abs(a.m), e |-> a.e]

\* Math.max and Math.min of two values: NaN when an operand is NaN.
MathMax(a, b) ==
  IF IsNaN(a) \/ IsNaN(b) THEN NaN ELSE IF Cmp(a, b) >= 0 THEN a ELSE b

MathMin(a, b) ==
  IF IsNaN(a) \/ IsNaN(b) THEN NaN ELSE IF Cmp(a, b) <= 0 THEN a ELSE b

\* Math.pow(a, n) for a natural exponent n >= 1: the exact power, rounded once.
MathPow(a, n) ==
  IF IsFinite(a) THEN Round(a.m ^ n, a.e * n)
  ELSE IF IsNaN(a) THEN NaN
  ELSE Inf(IF n % 2 = 0 THEN 1 ELSE a.m)

\* The integer square root of the natural number n, bit by bit from 2^k down.
RECURSIVE ISqrtFrom(_, _, _)
ISqrtFrom(n, r, k) ==
  IF k < 0 THEN r
  ELSE LET t == r + Pow2(k)
       IN ISqrtFrom(n, IF t * t <= n THEN t ELSE r, k - 1)

ISqrt(n) == ISqrtFrom(n, 0, 15)

RootWithSticky(n, r, e) == Round(2 * r + (IF r * r = n THEN 0 ELSE 1), e - 1)

\* The root of the mantissa scaled by 2^k, where a.e - k is even.
SqrtEven(a, k) == RootWithSticky(a.m * Pow2(k), ISqrt(a.m * Pow2(k)), (a.e - k) \div 2)

SqrtScaled(a, k0) == SqrtEven(a, IF (a.e - k0) % 2 = 0 THEN k0 ELSE k0 + 1)

\* Math.sqrt, rounded once: the mantissa is scaled to at least
\* 2 * Precision + 2 bits with an even exponent, and a sticky bit records
\* an inexact integer root.
SqrtFinite(a) == SqrtScaled(a, AtLeast0(2 * Precision + 2 - BitLen(a.m)))

MathSqrt(a) ==
  IF IsNaN(a) \/ a.m < 0 THEN NaN
  ELSE IF IsInf(a) THEN a
  ELSE IF a.m = 0 THEN a
  ELSE SqrtFinite(a)

\* Math.PI: pi to 28 binary places, rounded to the format.
MathPI == Round(843314857, -28)

----------------------------------------------------------------------------
(* Math.exp, Math.cos, Math.sin, Math.cosh, Math.sinh, Math.tanh            *)
(*                                                                          *)
(* The engine's library computes these to within a unit of the last place.  *)
(* Here each is computed in fixed point with FracBits binary places, eight  *)
(* more than the format keeps, from its power series after the usual        *)
(* argument reduction, and rounded to the format.  Arguments are below      *)
(* 2^15 in magnitude, which covers every call of the engine in this model.  *)

FracBits == Precision + 8

One == Pow2(FracBits)

\* A constant given to 28 binary places, in fixed point: the places kept
\* and the places dropped.
Places28(c) == [hi |-> c \div Pow2(28 - FracBits), lo |-> c % Pow2(28 - FracBits)]

\* ln 2, 2 pi and pi / 2.
Ln2 == Places28(186065279)
TwoPi == Places28(1686629713)
HalfPi == Places28(421657428)

\* k * c in fixed point for an integer k and such a constant c.
Times(k, c) == k * c.hi + (k * c.lo) \div Pow2(28 - FracBits)

\* The finite number a in fixed point, rounded half away from zero.
ToFixed(a) ==
  IF a.e + FracBits >= 0 THEN a.m * Pow2(a.e + FracBits)
  ELSE LET s == -(a.e + FracBits)
       IN IF s > 20 THEN 0
          ELSE Sgn(a.m) * ((Abs(a.m) + Pow2(s - 1)) \div Pow2(s))

\* Below this magnitude sin a and sinh a round to a.
IsTiny(a) == Abs(ToFixed(a)) < Pow2(FracBits \div 2)

\* One step of a power series in Horner form: 1 + (r / n) * acc.
SeriesStep(r, acc, n) == One + (r * acc) \div (n * One)

\* e^r for |r| <= (ln 2) / 2, in fixed point.
ExpFixed(r) ==
  SeriesStep(r, SeriesStep(r, SeriesStep(r, SeriesStep(r,
    SeriesStep(r, One, 5), 4), 3), 2), 1)

\* e^x = (M / One) * 2^k for x in fixed point, k the multiple of ln 2
\* nearest to x.
ExpAt(x, k) == [M |-> ExpFixed(x - Times(k, Ln2)), k |-> k]

ExpOf(x) == ExpAt(x, (2 * x + Ln2.hi) \div (2 * Ln2.hi))

\* e^a for a finite a, in these parts.
ExpParts(a) == ExpOf(ToFixed(a))

ExpRounded(p) == Round(p.M, p.k - FracBits)

MathExp(a) ==
  IF IsNaN(a) THEN NaN
  ELSE IF IsInf(a) THEN (IF a.m > 0 THEN Infinity ELSE I(0))
  ELSE ExpRounded(ExpParts(a))

\* (p + sign / p) / 2 for p = e^|a| in parts; 1 / p is dropped once it lies
\* below the places kept.
HyperbolicOf(p, sign) ==
  Round(IF 2 * p.k <= 14
        THEN p.M * Pow2(2 * p.k) + sign * ((One * One) \div p.M)
        ELSE p.M,
        (IF 2 * p.k <= 14 THEN -p.k ELSE p.k) - FracBits - 1)

HyperbolicSum(a, sign) == HyperbolicOf(ExpParts(MathAbs(a)), sign)

WithSign(v, sign) == IF sign < 0 THEN Neg(v) ELSE v

MathCosh(a) ==
  IF IsNaN(a) THEN NaN
  ELSE IF IsInf(a) THEN Infinity
  ELSE HyperbolicSum(a, 1)

MathSinh(a) ==
  IF IsNaN(a) \/ IsInf(a) THEN a
  ELSE IF IsTiny(a) THEN a
  ELSE WithSign(HyperbolicSum(a, -1), a.m)

MathTanh(a) ==
  IF IsNaN(a) THEN NaN
  ELSE IF IsInf(a) THEN I(Sgn(a.m))
  ELSE Div(MathSinh(a), MathCosh(a))

\* One step of an alternating series in r2 = r * r: 1 - (r2 / n) * acc.
AlternatingStep(r2, acc, n) == One - (r2 * acc) \div (n * One)

\* sin r and cos r for |r| <= pi / 4 and r2 = r * r, in fixed point.
SinSeries(r, r2) ==
  (r * AlternatingStep(r2, AlternatingStep(r2,
         AlternatingStep(r2, One, 42), 20), 6)) \div One

CosSeries(r2) ==
  AlternatingStep(r2, AlternatingStep(r2, AlternatingStep(r2, One, 30), 12), 2)

SinFixed(r) == SinSeries(r, (r * r) \div One)

CosFixed(r) == CosSeries((r * r) \div One)

\* The angle y, in fixed point, as r in [-pi/4, pi/4] and a quadrant q:
\* y = r + n * pi/2 and q = n modulo 4.
Quadrant(y, n) == [r |-> y - Times(n, HalfPi), q |-> n % 4]

ReducedAt(y) == Quadrant(y, (2 * y + HalfPi.hi) \div (2 * HalfPi.hi))

\* The angle x, in fixed point, less its whole turns.
ReducedFrom(x) == ReducedAt(x - Times(x \div TwoPi.hi, TwoPi))

Reduced(a) == ReducedFrom(ToFixed(a))

\* sin and cos of the reduced angle t, in fixed point.
SinOf(t) ==
  CASE t.q = 0 -> SinFixed(t.r)
    [] t.q = 1 -> CosFixed(t.r)
    [] t.q = 2 -> -SinFixed(t.r)
    [] t.q = 3 -> -CosFixed(t.r)

CosOf(t) ==
  CASE t.q = 0 -> CosFixed(t.r)
    [] t.q = 1 -> -SinFixed(t.r)
    [] t.q = 2 -> -CosFixed(t.r)
    [] t.q = 3 -> SinFixed(t.r)

MathSin(a) ==
  IF IsNaN(a) \/ IsInf(a) THEN NaN
  ELSE IF IsTiny(a) THEN a
  ELSE Round(SinOf(Reduced(a)), -FracBits)

MathCos(a) ==
  IF IsNaN(a) \/ IsInf(a) THEN NaN
  ELSE Round(CosOf(Reduced(a)), -FracBits)

----------------------------------------------------------------------------
(* Data model *)

BeamTypes == {"cantilever", "simply-supported", "fixed-fixed", "fixed-pinned"}

\* null, and the undefined of an optional property
Null == [null |-> TRUE]
Undefined == [undefined |-> TRUE]

----------------------------------------------------------------------------
(* solveCharacteristicEquation and findRoot                                *)
(*                                                                         *)
(* The solver's arguments bL are kept on a grid of thousandths (1875 is    *)
(* 1.875), the resolution of the guess table, and the values of a          *)
(* characteristic function in units of 1e-7.  The finite-difference step   *)
(* is one grid step.  The transcendental functions are not computed: the   *)
(* characteristic function of a beam type is one of a family of functions  *)
(* on the grid, fixed when the system starts, which has the well-behaved   *)
(* cases (the root at the guess, a root Newton reaches, a root reached     *)
(* after bisection, a root reached on the last pass) and the failing ones  *)
(* (a flat function, no root in the bracket).                              *)

VARIABLE equations       \* beam type -> the pattern of its characteristic function

\* The shape of a characteristic function on one bracket, at offset t from
\* the guess.
ShapeValue(shape, t) ==
  CASE shape = "mid" -> 40 * t
    [] shape = "newton" -> ((t - 40) * (t + 400)) \div 16
    [] shape = "bisect" -> ((t + 10) * (t + 10) - 96100) \div 8
    [] shape = "flat" -> 500
    [] shape = "outside" -> 20 * (t - 800)
    [] shape = "slow" -> IF t >= 500 THEN 0 ELSE 1000 - 200 * (((t + 2) % 5) - 2)

\* A pattern gives the shape on each of the five brackets.
PatternShapes(pattern) ==
  CASE pattern = "sine" -> <<"mid", "mid", "mid", "mid", "mid">>
    [] pattern = "regular" -> <<"newton", "newton", "mid", "bisect", "newton">>
    [] pattern = "gaps" -> <<"newton", "flat", "bisect", "outside", "newton">>
    [] pattern = "late" -> <<"outside", "newton", "flat", "newton", "slow">>

Patterns == {"sine", "regular", "gaps", "late"}

\* sin(n * pi) is 0 to rounding, so the sine has its roots at the guesses;
\* the other three functions take the three other patterns, in any rotation.
EquationFamily ==
  LET rot == <<"regular", "gaps", "late", "regular", "gaps">>
  IN { [bt \in BeamTypes |->
          CASE bt = "simply-supported" -> "sine"
            [] bt = "cantilever" -> rot[k]
            [] bt = "fixed-fixed" -> rot[k + 1]
            [] bt = "fixed-pinned" -> rot[k + 2]] : k \in 1..3 }

\* const initialGuesses, in thousandths
initialGuesses(beamType) ==
  CASE beamType = "cantilever" -> <<1875, 4694, 7855, 10996, 14137>>
    [] beamType = "simply-supported" -> <<3142, 6283, 9425, 12566, 15708>>
    [] beamType = "fixed-fixed" -> <<4730, 7853, 10996, 14137, 17279>>
    [] beamType = "fixed-pinned" -> <<3927, 7069, 10210, 13352, 16493>>

\* guesses[i] - 0.5 and guesses[i] + 0.5: half the bracket, in thousandths
HalfBracket == 500

\* tolerance: number = 1e-6, in units of 1e-7
tolerance == 10

\* maxIterations: number = 100
maxIterations == 100

\* const h = 1e-8: one grid step
h == 1

\* The bracket (1..5) whose guess is nearest to x.
RECURSIVE NearestGuess(_, _, _)
NearestGuess(guesses, x, i) ==
  IF i = Len(guesses) THEN i
  ELSE IF 2 * x <= guesses[i] + guesses[i + 1] THEN i
  ELSE NearestGuess(guesses, x, i + 1)

\* equations[beamType] of the code: the characteristic function of the beam
\* type whose pattern is `pattern`, at x.
equation(pattern, beamType, x) ==
  LET guesses == initialGuesses(beamType)
      i == NearestGuess(guesses, x, 1)
  IN ShapeValue(PatternShapes(pattern)[i], x - guesses[i])

\* a / b to the nearest integer, b # 0
RoundDiv(a, b) ==
  IF b > 0 THEN (2 * a + b) \div (2 * b) ELSE (-2 * a - b) \div (-2 * b)

\* A loop body that takes every Newton step, inside the bracket or not.
findRootBodyNewton(pattern, beamType, st) ==
  LET x == st.x
      fx == equation(pattern, beamType, x)
      df == equation(pattern, beamType, x + h) - equation(pattern, beamType, x - h)
  IN IF Abs(fx) < tolerance THEN [st EXCEPT !.at = "return"]
     ELSE IF Abs(df) * 1000000 < 2 * h THEN [st EXCEPT !.at = "after"]
     ELSE [st EXCEPT !.x = x - RoundDiv(fx * 2 * h, df), !.i = @ + 1]

\* A loop body whose bisection keeps the other half of the bracket.
findRootBodySwapped(pattern, beamType, st) ==
  LET x == st.x
      fx == equation(pattern, beamType, x)
      df == equation(pattern, beamType, x + h) - equation(pattern, beamType, x - h)
  IN IF Abs(fx) < tolerance THEN [st EXCEPT !.at = "return"]
     ELSE IF Abs(df) * 1000000 < 2 * h THEN [st EXCEPT !.at = "after"]
     ELSE LET xNew == x - RoundDiv(fx * 2 * h, df)
          IN IF xNew < st.lowerBound \/ xNew > st.upperBound
             THEN LET mid == (st.lowerBound + st.upperBound) \div 2
                  IN IF equation(pattern, beamType, st.lowerBound)
                          * equation(pattern, beamType, mid) < 0
                     THEN [st EXCEPT !.x = mid, !.lowerBound = mid, !.i = @ + 1]
                     ELSE [st EXCEPT !.x = mid, !.upperBound = mid, !.i = @ + 1]
             ELSE [st EXCEPT !.x = xNew, !.i = @ + 1]

\* One pass of findRoot's loop body from the loop state st =
\* [x, lowerBound, upperBound, i, at], at = "loop".  The result has
\* at = "return" when the body returned x, at = "after" when the loop was
\* left (break), and at = "loop" otherwise, with i advanced.
findRootBody(pattern, beamType, st) ==
  LET x == st.x
      fx == equation(pattern, beamType, x)
      df == equation(pattern, beamType, x + h) - equation(pattern, beamType, x - h)
  IN IF Abs(fx) < tolerance THEN [st EXCEPT !.at = "return"]
     \* |dfx| < 1e-10 with dfx = df / (2 * h), df in 1e-7 and h in 1e-3
     ELSE IF Abs(df) * 1000000 < 2 * h THEN [st EXCEPT !.at = "after"]
     ELSE LET xNew == x - RoundDiv(fx * 2 * h, df)
          IN IF xNew < st.lowerBound \/ xNew > st.upperBound
             THEN LET mid == (st.lowerBound + st.upperBound) \div 2
                  IN IF equation(pattern, beamType, st.lowerBound)
                          * equation(pattern, beamType, mid) < 0
                     THEN [st EXCEPT !.x = mid, !.upperBound = mid, !.i = @ + 1]
                     ELSE [st EXCEPT !.x = mid, !.lowerBound = mid, !.i = @ + 1]
             ELSE [st EXCEPT !.x = xNew, !.i = @ + 1]

\* A loop without the bound on its passes.
findRootPassUnbounded(pattern, beamType, st) ==
  IF st.at # "loop" THEN st
  ELSE findRootBody(pattern, beamType, st)

\* The loop test and one pass: the state is left alone once the loop has
\* been left, and the loop is left when i reaches maxIterations.
findRootPass(pattern, beamType, st) ==
  IF st.at # "loop" THEN st
  ELSE IF st.i >= maxIterations THEN [st EXCEPT !.at = "after"]
  ELSE findRootBody(pattern, beamType, st)

\* n passes from state st, the second half of them after the first half.
RECURSIVE findRootPasses(_, _, _, _)
findRootPasses(pattern, beamType, st, n) ==
  IF st.at # "loop" \/ n = 0 THEN st
  ELSE IF n = 1 THEN findRootPass(pattern, beamType, st)
  ELSE findRootPasses(pattern, beamType,
                      findRootPasses(pattern, beamType, st, n \div 2),
                      n - n \div 2)

\* The loop from state st until it returns, breaks or i reaches
\* maxIterations: at most maxIterations passes and the test that ends it.
findRootLoop(pattern, beamType, st) ==
  findRootPasses(pattern, beamType, st, maxIterations + 1)

\* A loop that starts at the lower end of the bracket.
findRootStartLow(lowerBound, upperBound) ==
  [x |-> lowerBound, lowerBound |-> lowerBound,
   upperBound |-> upperBound, i |-> 0, at |-> "loop"]

\* The state findRoot starts its loop in.
findRootStart(lowerBound, upperBound) ==
  [x |-> (lowerBound + upperBound) \div 2, lowerBound |-> lowerBound,
   upperBound |-> upperBound, i |-> 0, at |-> "loop"]

\* findRoot with the value after the loop returned as it stands.
findRootReturnUnchecked(pattern, beamType, st) == [bL |-> st.x]

\* What findRoot returns from the state its loop ended in: x from a return
\* in the loop; after the loop, x when |equation(x)| < tolerance, else null.
findRootReturn(pattern, beamType, st) ==
  IF st.at = "return" THEN [bL |-> st.x]
  ELSE IF Abs(equation(pattern, beamType, st.x)) < tolerance THEN [bL |-> st.x]
  ELSE Null

findRoot(pattern, beamType, lowerBound, upperBound) ==
  findRootReturn(pattern, beamType,
                 findRootLoop(pattern, beamType, findRootStart(lowerBound, upperBound)))

NumGuesses == 5

\* findRoot(equation, guesses[i] - 0.5, guesses[i] + 0.5), tabulated.
rootOfGuess[pattern \in Patterns, beamType \in BeamTypes, i \in 1..NumGuesses] ==
  findRoot(pattern, beamType,
           initialGuesses(beamType)[i] - HalfBracket,
           initialGuesses(beamType)[i] + HalfBracket)

\* The loop with its bound on the mode count off by one.
RECURSIVE solveLoopInclusive(_, _, _, _, _)
solveLoopInclusive(pattern, beamType, numModes, i, bLValues) ==
  IF ~(i - 1 <= numModes /\ i - 1 < Len(initialGuesses(beamType))) THEN bLValues
  ELSE LET bL == rootOfGuess[pattern, beamType, i]
       IN solveLoopInclusive(pattern, beamType, numModes, i + 1,
                             IF bL # Null THEN Append(bLValues, bL.bL) ELSE bLValues)

\* The loop left at the first bracket without a root.
RECURSIVE solveLoopBreak(_, _, _, _, _)
solveLoopBreak(pattern, beamType, numModes, i, bLValues) ==
  IF ~(i - 1 < numModes /\ i - 1 < Len(initialGuesses(beamType))) THEN bLValues
  ELSE LET bL == rootOfGuess[pattern, beamType, i]
       IN IF bL = Null THEN bLValues
          ELSE solveLoopBreak(pattern, beamType, numModes, i + 1,
                              Append(bLValues, bL.bL))

\* The loop with each root put in front of the earlier ones.
RECURSIVE solveLoopUnshift(_, _, _, _, _)
solveLoopUnshift(pattern, beamType, numModes, i, bLValues) ==
  IF ~(i - 1 < numModes /\ i - 1 < Len(initialGuesses(beamType))) THEN bLValues
  ELSE LET bL == rootOfGuess[pattern, beamType, i]
       IN solveLoopUnshift(pattern, beamType, numModes, i + 1,
                           IF bL # Null THEN <<bL.bL>> \o bLValues ELSE bLValues)

\* The loop of solveCharacteristicEquation from guess i (1-based) on, with
\* bLValues the roots pushed so far.
RECURSIVE solveLoop(_, _, _, _, _)
solveLoop(pattern, beamType, numModes, i, bLValues) ==
  IF ~(i - 1 < numModes /\ i - 1 < Len(initialGuesses(beamType))) THEN bLValues
  ELSE LET bL == rootOfGuess[pattern, beamType, i]
       IN solveLoop(pattern, beamType, numModes, i + 1,
                    IF bL # Null THEN Append(bLValues, bL.bL) ELSE bLValues)

solveCharacteristicEquation(pattern, beamType, numModes) ==
  solveLoop(pattern, beamType, numModes, 1, <<>>)

----------------------------------------------------------------------------
(* calculateStaticDeflection *)

\* const numPoints = 300
numPoints == 300

\* load: number = 1000
DefaultLoad == 1000

\* (P/(k*EI)) * (3*L*L*p - 4*p*p*p), the midspan-load polynomial at p.
MidspanPoly(k, load, EI, length, p) ==
  Mul(Div(load, Mul(I(k), EI)),
      Sub(Mul(Mul(Mul(I(3), length), length), p),
          Mul(Mul(Mul(I(4), p), p), p)))

\* The deflection the switch computes at position pos.
Deflection(beamType, load, EI, length, pos) ==
  CASE beamType = "cantilever" ->
         IF Ge(pos, I(0)) /\ Le(pos, length)
         THEN Mul(Div(load, Mul(I(6), EI)),
                  Sub(Mul(Mul(Mul(I(3), length), pos), pos),
                      Mul(Mul(pos, pos), pos)))
         ELSE I(0)
    [] beamType = "simply-supported" ->
         IF Le(pos, Div(length, I(2)))
         THEN MidspanPoly(48, load, EI, length, pos)
         ELSE MidspanPoly(48, load, EI, length, Sub(length, pos))
    [] beamType = "fixed-fixed" ->
         IF Le(pos, Div(length, I(2)))
         THEN MidspanPoly(192, load, EI, length, pos)
         ELSE MidspanPoly(192, load, EI, length, Sub(length, pos))
    [] beamType = "fixed-pinned" ->
         IF Le(pos, Div(length, I(2)))
         THEN MidspanPoly(96, load, EI, length, pos)
         ELSE MidspanPoly(96, load, EI, length, Sub(length, pos))

\* The tracking with a test that also takes a sample of equal magnitude.
trackPassLast(x, y, st) ==
  IF st.i >= Len(y) THEN st
  ELSE IF Ge(MathAbs(y[st.i + 1]), MathAbs(st.maxDeflection))
  THEN [i |-> st.i + 1, maxDeflection |-> y[st.i + 1],
        maxDeflectionLocation |-> x[st.i + 1]]
  ELSE [st EXCEPT !.i = @ + 1]

\* The end of one pass of the loop, from the state st = [i, maxDeflection,
\* maxDeflectionLocation]: the extremum kept so far is replaced by the
\* sample of loop index i (sequence index i + 1) when that is of greater
\* magnitude, and i advances.
trackPass(x, y, st) ==
  IF st.i >= Len(y) THEN st
  ELSE IF Gt(MathAbs(y[st.i + 1]), MathAbs(st.maxDeflection))
  THEN [i |-> st.i + 1, maxDeflection |-> y[st.i + 1],
        maxDeflectionLocation |-> x[st.i + 1]]
  ELSE [st EXCEPT !.i = @ + 1]

\* n passes from state st, the second half of them after the first half.
RECURSIVE trackPasses(_, _, _, _)
trackPasses(x, y, st, n) ==
  IF st.i >= Len(y) \/ n = 0 THEN st
  ELSE IF n = 1 THEN trackPass(x, y, st)
  ELSE trackPasses(x, y, trackPasses(x, y, st, n \div 2), n - n \div 2)

\* maxDeflection and maxDeflectionLocation after the loop: they start at 0.
TrackMax(x, y) ==
  LET st == trackPasses(x, y, [i |-> 0, maxDeflection |-> I(0),
                               maxDeflectionLocation |-> I(0)], Len(y))
  IN [maxDeflection |-> st.maxDeflection,
      maxDeflectionLocation |-> st.maxDeflectionLocation]

\* The array a loop pushed the values f[1], f[2], ... onto.
Pushed(f) == SubSeq(f, 1, Len(f))

\* Sequence index s = i + 1 holds the sample of loop index i.
calculateStaticDeflection(beamType, properties, load) ==
  LET length == properties.length
      Iner == Div(Mul(properties.width, MathPow(properties.depth, 3)), I(12))
      EI == Mul(properties.youngsModulus, Iner)
  IN IF Le(EI, I(0)) \/ Le(length, I(0)) THEN Null
     ELSE LET dx == Div(length, I(numPoints))
              x == Pushed([s \in 1..(numPoints + 1) |-> Mul(I(s - 1), dx)])
              y == Pushed([s \in 1..(numPoints + 1) |->
                             Deflection(beamType, load, EI, length, x[s])])
              ext == TrackMax(x, y)
          IN [x |-> x, y |-> y,
              maxDeflection |-> ext.maxDeflection,
              maxDeflectionLocation |-> ext.maxDeflectionLocation]

----------------------------------------------------------------------------
(* calculateModeShape *)

\* dx: number = 0.01
DefaultDx == Div(I(1), I(100))

\* What a call that raised RangeError leaves its caller with.
RangeError == [raised |-> "RangeError"]

\* The most arguments one call can pass (the engine's stack bounds them: some
\* 10^5 in a double-precision engine, fewer here where the format resolves
\* fewer positions along the beam).
MaxArguments == 40

\* The switch, with C, S, Ch, Sh the cos, sin, cosh, sinh of bx.
modeSwitch(beamType, bL, C, S, Ch, Sh) ==
  CASE beamType = "cantilever" ->
         Sub(Sub(S, Sh),
             Mul(Div(Add(MathSin(bL), MathSinh(bL)), Add(MathCos(bL), MathCosh(bL))),
                 Sub(C, Ch)))
    [] beamType = "simply-supported" -> S
    [] beamType = "fixed-fixed" ->
         Sub(Sub(C, Ch),
             Mul(Div(Sub(MathCosh(bL), MathCos(bL)), Sub(MathSinh(bL), MathSin(bL))),
                 Sub(S, Sh)))
    [] beamType = "fixed-pinned" ->
         Sub(S, Mul(MathTanh(bL), Sh))

\* The mode function at bx = b * pos, for the root bL.
modeValue(beamType, bL, bx) ==
  modeSwitch(beamType, bL, MathCos(bx), MathSin(bx), MathCosh(bx), MathSinh(bx))

\* One test and pass of the sampling loop: at "loop" with position pos and
\* the positions x pushed so far.  The loop leaves when pos > length.  When
\* pos + dx rounds to pos the loop can never leave: it is "stuck", pushing
\* the same position for ever.
samplePass(length, dx, st) ==
  IF st.at # "loop" THEN st
  ELSE IF ~Le(st.pos, length) THEN [st EXCEPT !.at = "after"]
  ELSE IF Add(st.pos, dx) = st.pos THEN [st EXCEPT !.at = "stuck"]
  ELSE [at |-> "loop", pos |-> Add(st.pos, dx), x |-> Append(st.x, st.pos)]

\* n passes, by halves.
RECURSIVE samplePasses(_, _, _, _)
samplePasses(length, dx, st, n) ==
  IF n = 0 \/ st.at # "loop" THEN st
  ELSE IF n = 1 THEN samplePass(length, dx, st)
  ELSE samplePasses(length, dx, samplePasses(length, dx, st, n \div 2), n - n \div 2)

\* for (let pos = 0; pos <= length; pos += dx): the positions increase from
\* pass to pass, and the format has fewer than 4^Precision of them between
\* dx and a length the model uses, so the loop has left or is stuck by then.
sampleLoop(length, dx) ==
  samplePasses(length, dx, [at |-> "loop", pos |-> I(0), x |-> <<>>],
               Pow2(2 * Precision))

\* Math.max of the values w[lo..hi], by halves: NaN if one of them is NaN.
RECURSIVE MaxOf(_, _, _)
MaxOf(w, lo, hi) ==
  IF lo > hi THEN NegInfinity
  ELSE IF lo = hi THEN w[lo]
  ELSE LET mid == (lo + hi) \div 2
       IN MathMax(MaxOf(w, lo, mid), MaxOf(w, mid + 1, hi))

\* Mode shapes left as they were sampled.
normalizeSkipped(w, maxW) == w

\* if (maxW > 0) w[i] = w[i] / maxW
normalize(w, maxW) ==
  IF Gt(maxW, I(0)) THEN [i \in 1..Len(w) |-> Div(w[i], maxW)] ELSE w

\* The samples pushed at the positions x, for the root bL and b = bL / length.
sampled(beamType, bL, b, x) ==
  Pushed([i \in 1..Len(x) |-> modeValue(beamType, bL, Mul(b, x[i]))])

\* Math.max(...w.map(Math.abs))
maxAbs(w) == MaxOf([i \in 1..Len(w) |-> MathAbs(w[i])], 1, Len(w))

\* The mode shape of a loop that left in st.  A loop that is stuck grows its
\* arrays until the engine refuses the push; spreading more than
\* MaxArguments samples into Math.max overflows the stack.  Either way the
\* call raises RangeError.
shapeOf(st, w) ==
  IF st.at = "stuck" \/ Len(st.x) > MaxArguments THEN RangeError
  ELSE [x |-> st.x, w |-> normalize(w, maxAbs(w))]

sampledOver(beamType, bL, length, st) ==
  shapeOf(st, sampled(beamType, bL, Div(bL, length), st.x))

\* The root bL is a number of thousandths.
calculateModeShape(beamType, bL, length, dx) ==
  sampledOver(beamType, Div(I(bL), I(1000)), length, sampleLoop(length, dx))

----------------------------------------------------------------------------
(* calculateDampedResponse *)

\* const numPoints = 1000 (the one of calculateDampedResponse)
responsePoints == 1000

\* The times of a loop that stops before numPoints (i < numPoints).
timesExclusive(dt) == Pushed([s \in 1..responsePoints |-> Mul(I(s - 1), dt)])

\* The times the loop pushes: i * dt for i = 0 .. numPoints.
timesOf(dt) == Pushed([s \in 1..(responsePoints + 1) |-> Mul(I(s - 1), dt)])

\* Math.exp(-dampingRatio * omega_n * t)
decayAt(dampingRatio, omega_n, t) == MathExp(Mul(Mul(Neg(dampingRatio), omega_n), t))

\* A response that does not decay: the oscillation at the initial amplitude.
displacementUndamped(initialAmplitude, decay, oscillation) ==
  Mul(initialAmplitude, oscillation)

\* initialAmplitude * decay * oscillation
displacementAt(initialAmplitude, decay, oscillation) ==
  Mul(Mul(initialAmplitude, decay), oscillation)

\* The sample of every tenth loop index (i % 10 === 0) of the samples f.
everyTenth(f) == [k \in 1..((Len(f) - 1) \div 10 + 1) |-> f[10 * (k - 1) + 1]]

\* The envelope over the times envelopeTime.
envelopeOver(envelopeTime, dampingRatio, omega_n, initialAmplitude) ==
  [time |-> envelopeTime,
   upper |-> Pushed([k \in 1..Len(envelopeTime) |->
               Mul(initialAmplitude, decayAt(dampingRatio, omega_n, envelopeTime[k]))]),
   lower |-> Pushed([k \in 1..Len(envelopeTime) |->
               Mul(Neg(initialAmplitude),
                   decayAt(dampingRatio, omega_n, envelopeTime[k]))])]

\* The record returned, with the times the loop pushed.
responseOver(time, naturalFrequency, dampingRatio, initialAmplitude, omega_n, omega_d) ==
  [time |-> time,
   displacement |->
     Pushed([s \in 1..Len(time) |->
               displacementAt(initialAmplitude,
                              decayAt(dampingRatio, omega_n, time[s]),
                              MathCos(Mul(omega_d, time[s])))]),
   envelope |->
     envelopeOver(Pushed(everyTenth(time)), dampingRatio, omega_n, initialAmplitude),
   dampingRatio |-> dampingRatio,
   naturalFrequency |-> naturalFrequency,
   dampedFrequency |-> Div(omega_d, Mul(I(2), MathPI))]

\* omega_d = omega_n * Math.sqrt(1 - dampingRatio * dampingRatio)
dampedOmega(omega_n, dampingRatio) ==
  Mul(omega_n, MathSqrt(Sub(I(1), Mul(dampingRatio, dampingRatio))))

\* calculateDampedResponse with the upper test of its guard turned round.
calculateDampedResponseFlipped(naturalFrequency, dampingRatio, duration, initialAmplitude) ==
  IF Le(dampingRatio, I(0)) \/ Le(dampingRatio, I(1)) THEN Null
  ELSE [time |-> <<>>, displacement |-> <<>>,
        envelope |-> [time |-> <<>>, upper |-> <<>>, lower |-> <<>>],
        dampingRatio |-> dampingRatio,
        naturalFrequency |-> naturalFrequency,
        dampedFrequency |-> naturalFrequency]

calculateDampedResponse(naturalFrequency, dampingRatio, duration, initialAmplitude) ==
  IF Le(dampingRatio, I(0)) \/ Ge(dampingRatio, I(1)) THEN Null
  ELSE responseOver(timesOf(Div(duration, I(responsePoints))),
                    naturalFrequency, dampingRatio, initialAmplitude,
                    Mul(Mul(naturalFrequency, I(2)), MathPI),
                    dampedOmega(Mul(Mul(naturalFrequency, I(2)), MathPI), dampingRatio))

----------------------------------------------------------------------------
(* The caller and the calls *)

\* The largest mode count a caller asks for.
MaxModes == 6

\* Lengths a caller passes.  The format resolves the sampling step of a mode
\* shape along a beam of 1/4 (24 samples with 6 bits; the page's beam of 2 m
\* has 200 in double precision); a beam of 1/2 has more samples than one
\* call can pass; along a beam of 1 the step is lost in rounding.
Lengths == {I(0), Canon(1, -2), Canon(1, -1), I(1)}

\* Other values a caller passes: 0.1 m (13/128); 0.3 m (19/64); 7830 kg/m3
\* (61 * 2^7); and the non-positive ones.  The moduli are the significand of
\* 2.05e11 Pa (47 * 2^32) at two smaller exponents, a stiff beam and a soft
\* one: along the short beams above they give first frequencies of 64 to
\* 1088 Hz and of 0.7 to 12 Hz, within the range of the page's examples and
\* within the argument range of the math library above.
Widths == {Canon(13, -7)}
Depths == {Canon(19, -6)}
Moduli == {I(0), Canon(47, 7), Canon(47, 20)}
Densities == {Canon(61, 7)}

\* zeta: missing, negative, 0, 0.02 (41/2048), 1, 3/2
DampingRatios ==
  {Undefined, Canon(-1, -1), I(0), Canon(41, -11), I(1), Canon(3, -1)}

PropertiesOf(Ls, Ws, Ds, Es, Rs, Zs) ==
  [length : Ls, width : Ws, depth : Ds, youngsModulus : Es, density : Rs,
   dampingRatio : Zs]

AllProperties == PropertiesOf(Lengths, Widths, Depths, Moduli, Densities, DampingRatios)

\* The smaller universe of the two-call properties.
PairBeamTypes == {"cantilever", "fixed-fixed"}
PairModes == {1, 4}
PairDampingRatios == {Undefined, Canon(41, -11), Canon(3, -1)}

\* The universe of the scaling properties: a modulus and four times it, a
\* length and twice it.
ScaleModes == {1, 3}
ScaleModuli == {Canon(47, 18), Canon(47, 20)}
ScaleLengths == {Canon(1, -3), Canon(1, -2)}

\* The calls followed after the one the caller keeps.
MaxCallsSince == 2

\* The arguments of direct calls of calculateStaticDeflection: lengths that
\* are negative, zero, and positive with several significands.
StaticLengths ==
  {I(-2), I(0), I(2), I(3), Canon(44, -4), Canon(51, -3), Canon(58, -5), Canon(37, -4)}
StaticModuli == {Canon(-47, 32), I(0), Canon(47, 32)}
StaticProperties ==
  PropertiesOf(StaticLengths, Widths, Depths, StaticModuli, Densities, {Undefined})

\* The loads of those calls: none, the default load, and the default load
\* upwards.
StaticLoads == {I(0), I(DefaultLoad), I(-DefaultLoad)}

\* The lengths of direct calls of calculateModeShape: one below the step,
\* which has the one sample at 0, and lengths with few and with many samples.
ShapeLengths ==
  {Canon(1, -7), Canon(1, -4), Canon(1, -3), Canon(3, -4), Canon(1, -2),
   Canon(3, -3), Canon(1, -1), I(1)}

\* The properties a static deflection depends on.
Geometry(properties) ==
  [length |-> properties.length, width |-> properties.width,
   depth |-> properties.depth, youngsModulus |-> properties.youngsModulus]

\* The beams of the scaling properties.
ScaleProperties ==
  PropertiesOf(ScaleLengths, Widths, Depths, ScaleModuli, Densities, {Undefined})

\* The geometries of the beams of AllProperties and of ScaleProperties.
Geometries == {Geometry(q) : q \in AllProperties \cup ScaleProperties}

\* calculateStaticDeflection(beamType, properties, 1000) for those
\* geometries, tabulated.
deflect[beamType \in BeamTypes, g \in Geometries] ==
  calculateStaticDeflection(beamType, g, I(DefaultLoad))

staticDeflectionOf(beamType, properties) ==
  IF Geometry(properties) \in Geometries
  THEN deflect[beamType, Geometry(properties)]
  ELSE calculateStaticDeflection(beamType, properties, I(DefaultLoad))

\* The roots the solver can return for a beam type.
GridRoots(beamType) ==
  {r.bL : r \in {rootOfGuess[f[beamType], beamType, i] :
                   f \in EquationFamily, i \in 1..NumGuesses} \ {Null}}

\* The calls of calculateModeShape an analysis of these beams makes.
ModeShapeCalls ==
  UNION {{<<bt, bL, L>> : bL \in GridRoots(bt), L \in Lengths \cup ScaleLengths}
           : bt \in BeamTypes}

\* calculateModeShape with the default step, tabulated for those calls.
modeShapeTable[c \in ModeShapeCalls] == calculateModeShape(c[1], c[2], c[3], DefaultDx)

modeShape(beamType, bL, length) ==
  IF <<beamType, bL, length>> \in ModeShapeCalls
  THEN modeShapeTable[<<beamType, bL, length>>]
  ELSE calculateModeShape(beamType, bL, length, DefaultDx)

----------------------------------------------------------------------------
(* calculateBeamAnalysis *)

\* A root of the grid as a number: bL thousandths.
GridNumber(bL) == Div(I(bL), I(1000))

\* A frequency with the cube of the length where line 360 has its fourth
\* power.
frequencyOfCubed(bL, properties) ==
  Div(Mul(MathPow(GridNumber(bL), 2),
          MathSqrt(Div(Mul(properties.youngsModulus,
                           Div(Mul(properties.width, MathPow(properties.depth, 3)),
                               I(12))),
                       Mul(Mul(properties.density,
                               Mul(properties.width, properties.depth)),
                           MathPow(properties.length, 3))))),
      Mul(I(2), MathPI))

\* The natural frequency of the root bL of a beam, lines 359-362.
frequencyOf(bL, properties) ==
  Div(Mul(MathPow(GridNumber(bL), 2),
          MathSqrt(Div(Mul(properties.youngsModulus,
                           Div(Mul(properties.width, MathPow(properties.depth, 3)),
                               I(12))),
                       Mul(Mul(properties.density,
                               Mul(properties.width, properties.depth)),
                           MathPow(properties.length, 4))))),
      Mul(I(2), MathPI))

\* The duration of the damped response of a beam with first frequency
\* f1, lines 388-405.
responseDuration(f1, zeta) ==
  LET omega1 == Mul(Mul(f1, I(2)), MathPI)
      period == Div(I(1), f1)
      minDuration == I(5)
      adaptiveDuration == MathMax(Mul(I(15), period), minDuration)
      timeConstant == Div(I(1), Mul(zeta, omega1))
      decayDuration == Mul(I(3), timeConstant)
      maxDuration == I(60)
  IN MathMin(MathMax(MathMax(adaptiveDuration, decayDuration), minDuration),
             maxDuration)

\* Whether the damping ratio of these properties passes lines 383 and 390.
Responds(properties) ==
  /\ properties.dampingRatio # Undefined
  /\ Gt(properties.dampingRatio, I(0))
  /\ Lt(properties.dampingRatio, I(1))

\* The first roots of the beams whose mode shapes raise nothing, with the
\* properties of a beam that gets a damped response.
RespondingBeams ==
  UNION {{<<bL, q>> : bL \in {b \in GridRoots(bt) : modeShape(bt, b, q.length) # RangeError}}
           : bt \in BeamTypes, q \in {r \in AllProperties : Responds(r)}}

\* The calls of calculateDampedResponse an analysis of these beams makes.
ResponseCalls ==
  {<<frequencyOf(c[1], c[2]), c[2].dampingRatio,
     responseDuration(frequencyOf(c[1], c[2]), c[2].dampingRatio)>> : c \in RespondingBeams}

\* calculateDampedResponse with the initial amplitude 1, tabulated for those
\* calls.
dampedResponseTable[c \in ResponseCalls] == calculateDampedResponse(c[1], c[2], c[3], I(1))

dampedResponse(naturalFrequency, dampingRatio, duration) ==
  IF <<naturalFrequency, dampingRatio, duration>> \in ResponseCalls
  THEN dampedResponseTable[<<naturalFrequency, dampingRatio, duration>>]
  ELSE calculateDampedResponse(naturalFrequency, dampingRatio, duration, I(1))

\* The damping coefficient and the damped response of lines 380-409.
Damping(properties, naturalFrequencies, massPerUnitLength) ==
  IF properties.dampingRatio # Undefined
       /\ Gt(properties.dampingRatio, I(0))
       /\ Len(naturalFrequencies) > 0
  THEN [dampingCoefficient |->
          Mul(Mul(Mul(I(2), properties.dampingRatio),
                  Mul(Mul(naturalFrequencies[1], I(2)), MathPI)),
              massPerUnitLength),
        dampedResponse |->
          IF Gt(properties.dampingRatio, I(0)) /\ Lt(properties.dampingRatio, I(1))
          THEN dampedResponse(naturalFrequencies[1], properties.dampingRatio,
                              responseDuration(naturalFrequencies[1],
                                               properties.dampingRatio))
          ELSE Null]
  ELSE [dampingCoefficient |-> Null, dampedResponse |-> Null]

\* The entry numbered by the array index as it is, from 0.
numberedFromZero(k, bL, shape) ==
  IF shape = RangeError THEN RangeError
  ELSE [mode |-> k - 1, x |-> shape.x, w |-> shape.w, bL |-> bL]

\* The entry of modeShapes for the k-th root, or what its mode shape raised.
numbered(k, bL, shape) ==
  IF shape = RangeError THEN RangeError
  ELSE [mode |-> k, x |-> shape.x, w |-> shape.w, bL |-> bL]

\* calculateBeamAnalysis with the roots bLValues the solver returned and the
\* static deflection it computes.  A mode shape that raises ends the call:
\* the engine catches nothing.
Assemble(beamType, properties, bLValues, staticDeflection) ==
  LET length == properties.length
      A == Mul(properties.width, properties.depth)
      Iner == Div(Mul(properties.width, MathPow(properties.depth, 3)), I(12))
      flexuralRigidity == Mul(properties.youngsModulus, Iner)
      massPerUnitLength == Mul(properties.density, A)
      naturalFrequencies ==
        [k \in 1..Len(bLValues) |-> frequencyOf(bLValues[k], properties)]
      modeShapes ==
        [k \in 1..Len(bLValues) |->
           numbered(k, bLValues[k], modeShape(beamType, bLValues[k], length))]
      damping == Damping(properties, naturalFrequencies, massPerUnitLength)
  IN IF \E k \in 1..Len(bLValues) : modeShapes[k] = RangeError THEN RangeError
     ELSE
     [naturalFrequencies |-> naturalFrequencies,
      modeShapes |-> modeShapes,
      flexuralRigidity |-> flexuralRigidity,
      massPerUnitLength |-> massPerUnitLength,
      staticDeflection |-> staticDeflection,
      dampingCoefficient |-> damping.dampingCoefficient,
      dampedResponse |-> damping.dampedResponse]

\* calculateBeamAnalysis giving up the static deflection when the damping
\* ratio is out of range or no root converged.
calculateBeamAnalysisGuarded(pattern, beamType, properties, numModes) ==
  LET bLValues == solveCharacteristicEquation(pattern, beamType, numModes)
      zeta == properties.dampingRatio
      valid == zeta = Undefined \/ (Gt(zeta, I(0)) /\ Lt(zeta, I(1)))
  IN Assemble(beamType, properties, bLValues,
              IF valid /\ Len(bLValues) > 0
              THEN staticDeflectionOf(beamType, properties) ELSE Null)

\* An engine that solves for one mode only on a short beam.
calculateBeamAnalysisShort(pattern, beamType, properties, numModes) ==
  Assemble(beamType, properties,
           solveCharacteristicEquation(pattern, beamType,
             IF Lt(properties.length, Canon(1, -2)) /\ numModes > 1
             THEN 1 ELSE numModes),
           staticDeflectionOf(beamType, properties))

calculateBeamAnalysis(pattern, beamType, properties, numModes) ==
  Assemble(beamType, properties,
           solveCharacteristicEquation(pattern, beamType, numModes),
           staticDeflectionOf(beamType, properties))

VARIABLES
  args,          \* the caller's arguments of the current call:
                 \* [beamType, properties, numModes]
  results,       \* what the current call returned, Pending until it returns
  first,         \* an earlier call, arguments and result, NoCall if none is kept
  callsSince,    \* the calls that have returned since the kept one
  deflection,    \* what a direct call of calculateStaticDeflection returned
  sampling,      \* a direct call of calculateModeShape: its arguments and
                 \* what it returned
  pointLoad,     \* the load of a direct call of calculateStaticDeflection
  search,        \* a call of findRoot: its bracket, the state of its loop
                 \* and what it returned
  tasks,         \* the modes of one analysis worked on one by one, in any
                 \* order: the root and the shape of each guess
  page           \* the page: its active tab and what it last rendered

vars == <<equations, args, results, first, callsSince, deflection, sampling,
          pointLoad, search, tasks, page>>

Pending == [pending |-> TRUE]
NoCall == [none |-> TRUE]

\* The caller prepares the next call: another beam type, another mode count,
\* or another value of one property.  The record is the caller's own.
SetBeamType(bt) ==
  /\ args' = [args EXCEPT !.beamType = bt]
  /\ results' = Pending
  /\ UNCHANGED <<equations, first, callsSince, deflection, sampling,
               pointLoad, search, tasks, page>>

SetNumModes(n) ==
  /\ args' = [args EXCEPT !.numModes = n]
  /\ results' = Pending
  /\ UNCHANGED <<equations, first, callsSince, deflection, sampling,
               pointLoad, search, tasks, page>>

SetProperty(key, value) ==
  /\ args' = [args EXCEPT !.properties[key] = value]
  /\ results' = Pending
  /\ UNCHANGED <<equations, first, callsSince, deflection, sampling,
               pointLoad, search, tasks, page>>

\* An engine that fills in the missing damping ratio in the caller's record.
PropertiesDefaulted(properties) ==
  [properties EXCEPT !.dampingRatio = IF @ = Undefined THEN I(0) ELSE @]

\* The caller's record when a call has returned: the engine received a
\* reference to it, reads its fields and assigns none.
PropertiesAfterCall(properties) == properties

\* A call whose root list outlives it: the roots of the kept call are still
\* in the list when a later call pushes its own.
AnalyzeAccumulating ==
  /\ results = Pending
  /\ first = NoCall \/ callsSince < MaxCallsSince
  /\ results' =
       LET kept == IF first = NoCall THEN <<>>
                   ELSE [k \in 1..Len(first.results.modeShapes) |->
                           first.results.modeShapes[k].bL]
       IN Assemble(args.beamType, args.properties,
                   kept \o solveCharacteristicEquation(equations[args.beamType],
                                                       args.beamType, args.numModes),
                   staticDeflectionOf(args.beamType, args.properties))
  /\ callsSince' = IF first = NoCall THEN 0 ELSE callsSince + 1
  /\ UNCHANGED <<equations, args, first, deflection, sampling,
               pointLoad, search, tasks, page>>

\* calculateBeamAnalysis runs and returns.  Once a call is kept, the calls
\* that follow it are counted, up to MaxCallsSince.
Analyze ==
  /\ results = Pending
  /\ first = NoCall \/ callsSince < MaxCallsSince
  /\ results' = calculateBeamAnalysis(equations[args.beamType], args.beamType,
                                      args.properties, args.numModes)
  /\ args' = [args EXCEPT !.properties = PropertiesAfterCall(@)]
  /\ callsSince' = IF first = NoCall THEN 0 ELSE callsSince + 1
  /\ UNCHANGED <<equations, first, deflection, sampling,
               pointLoad, search, tasks, page>>

\* The caller keeps the call that just returned, to compare later ones with.
Remember ==
  /\ results # Pending
  /\ first = NoCall
  /\ first' = [args |-> args, results |-> results]
  /\ UNCHANGED <<equations, args, results, callsSince, deflection, sampling,
               pointLoad, search, tasks, page>>

\* The caller calls calculateStaticDeflection(bt, p, l) directly.
CallDeflection(bt, p, l) ==
  /\ deflection # Pending
  /\ args' = [args EXCEPT !.beamType = bt, !.properties = p]
  /\ pointLoad' = l
  /\ deflection' = Pending
  /\ UNCHANGED <<equations, results, first, callsSince, sampling,
               search, tasks, page>>

\* calculateStaticDeflection runs and returns.
Deflect ==
  /\ deflection = Pending
  /\ deflection' = calculateStaticDeflection(args.beamType, args.properties,
                                             pointLoad)
  /\ args' = [args EXCEPT !.properties = PropertiesAfterCall(@)]
  /\ UNCHANGED <<equations, results, first, callsSince, sampling,
               pointLoad, search, tasks, page>>

\* The page's first call: a cantilever of the default properties, 3 modes.
\* Its length is the one of Lengths that the sampling step resolves.
DefaultProperties ==
  [length |-> Canon(1, -2), width |-> Canon(13, -7), depth |-> Canon(19, -6),
   youngsModulus |-> Canon(47, 20), density |-> Canon(61, 7),
   dampingRatio |-> Undefined]

Init ==
  /\ equations \in EquationFamily
  /\ args = [beamType |-> "cantilever", properties |-> DefaultProperties,
             numModes |-> 3]
  /\ results = Pending
  /\ first = NoCall
  /\ callsSince = 0
  /\ deflection = Null
  /\ sampling = Null
  /\ pointLoad = I(DefaultLoad)
  /\ search = Null
  /\ tasks = Null
  /\ page = Null

Next ==
  \/ \E bt \in BeamTypes : SetBeamType(bt)
  \/ \E n \in 0..MaxModes : SetNumModes(n)
  \/ \E v \in Lengths : SetProperty("length", v)
  \/ \E v \in Moduli : SetProperty("youngsModulus", v)
  \/ \E v \in DampingRatios : SetProperty("dampingRatio", v)
  \/ Analyze

Spec == Init /\ [][Next]_vars

\* The two-call properties are followed on one family of equations.
PairInit ==
  /\ equations = CHOOSE f \in EquationFamily : f["cantilever"] = "regular"
  /\ args = [beamType |-> "cantilever", properties |-> DefaultProperties,
             numModes |-> 3]
  /\ results = Pending
  /\ first = NoCall
  /\ callsSince = 0
  /\ deflection = Null
  /\ sampling = Null
  /\ pointLoad = I(DefaultLoad)
  /\ search = Null
  /\ tasks = Null
  /\ page = Null

PairNext ==
  \/ \E bt \in PairBeamTypes : SetBeamType(bt)
  \/ \E n \in PairModes : SetNumModes(n)
  \/ \E v \in PairDampingRatios : SetProperty("dampingRatio", v)
  \/ Analyze
  \/ Remember

SpecPair == PairInit /\ [][PairNext]_vars

StaticInit ==
  /\ equations = CHOOSE f \in EquationFamily : f["cantilever"] = "regular"
  /\ args = [beamType |-> "cantilever", properties |-> DefaultProperties,
             numModes |-> 3]
  /\ results = Null
  /\ first = NoCall
  /\ callsSince = 0
  /\ deflection = Pending
  /\ sampling = Null
  /\ pointLoad = I(DefaultLoad)
  /\ search = Null
  /\ tasks = Null
  /\ page = Null

StaticNext ==
  \/ \E bt \in BeamTypes, p \in StaticProperties, l \in StaticLoads :
       CallDeflection(bt, p, l)
  \/ Deflect

SpecStatic == StaticInit /\ [][StaticNext]_vars

\* Calls that differ in the modulus or in the length, for the scaling of
\* the frequencies; they start as the two-call properties do.
ScaleNext ==
  \/ \E bt \in PairBeamTypes : SetBeamType(bt)
  \/ \E n \in ScaleModes : SetNumModes(n)
  \/ \E v \in ScaleModuli : SetProperty("youngsModulus", v)
  \/ \E v \in ScaleLengths : SetProperty("length", v)
  \/ Analyze
  \/ Remember

SpecScale == PairInit /\ [][ScaleNext]_vars

\* The caller calls calculateModeShape(bt, bL, length) directly, with the
\* default step.
CallModeShape(bt, bL, length) ==
  /\ IF sampling = Null THEN TRUE ELSE sampling.returned # Pending
  /\ sampling' = [beamType |-> bt, bL |-> bL, length |-> length, returned |-> Pending]
  /\ UNCHANGED <<equations, args, results, first, callsSince, deflection,
               pointLoad, search, tasks, page>>

\* calculateModeShape runs and returns.
SampleShape ==
  /\ IF sampling = Null THEN FALSE ELSE sampling.returned = Pending
  /\ sampling' = [sampling EXCEPT !.returned =
                 calculateModeShape(sampling.beamType, sampling.bL, sampling.length, DefaultDx)]
  /\ UNCHANGED <<equations, args, results, first, callsSince, deflection,
               pointLoad, search, tasks, page>>

ShapeInit ==
  /\ equations = CHOOSE f \in EquationFamily : f["cantilever"] = "regular"
  /\ args = [beamType |-> "cantilever", properties |-> DefaultProperties,
             numModes |-> 3]
  /\ results = Null
  /\ first = NoCall
  /\ callsSince = 0
  /\ deflection = Null
  /\ sampling = Null
  /\ pointLoad = I(DefaultLoad)
  /\ search = Null
  /\ tasks = Null
  /\ page = Null

ShapeNext ==
  \/ \E bt \in BeamTypes : \E bL \in GridRoots(bt), length \in ShapeLengths :
       CallModeShape(bt, bL, length)
  \/ SampleShape

SpecShape == ShapeInit /\ [][ShapeNext]_vars

\* The solver calls findRoot(equation, guesses[i] - 0.5, guesses[i] + 0.5)
\* for guess i of beam type bt; the loop is followed pass by pass.
CallFindRoot(bt, i) ==
  /\ IF search = Null THEN TRUE ELSE search.returned # Pending
  /\ search' = [beamType |-> bt, guess |-> i,
                st |-> findRootStart(initialGuesses(bt)[i] - HalfBracket,
                                     initialGuesses(bt)[i] + HalfBracket),
                returned |-> Pending]
  /\ UNCHANGED <<equations, args, results, first, callsSince, deflection,
               sampling, pointLoad, tasks, page>>

\* The loop test and one pass of findRoot's loop.
PassFindRoot ==
  /\ IF search = Null THEN FALSE
     ELSE search.returned = Pending /\ search.st.at = "loop"
  /\ search' = [search EXCEPT !.st = findRootPass(equations[search.beamType],
                                                  search.beamType, @)]
  /\ UNCHANGED <<equations, args, results, first, callsSince, deflection,
               sampling, pointLoad, tasks, page>>

\* findRoot returns: from inside the loop, or through the final check.
ReturnFindRoot ==
  /\ IF search = Null THEN FALSE
     ELSE search.returned = Pending /\ search.st.at # "loop"
  /\ search' = [search EXCEPT !.returned =
                  findRootReturn(equations[search.beamType], search.beamType,
                                 search.st)]
  /\ UNCHANGED <<equations, args, results, first, callsSince, deflection,
               sampling, pointLoad, tasks, page>>

RootInit ==
  /\ equations \in EquationFamily
  /\ args = [beamType |-> "cantilever", properties |-> DefaultProperties,
             numModes |-> 3]
  /\ results = Null
  /\ first = NoCall
  /\ callsSince = 0
  /\ deflection = Null
  /\ sampling = Null
  /\ pointLoad = I(DefaultLoad)
  /\ search = Null
  /\ tasks = Null
  /\ page = Null

RootNext ==
  \/ \E bt \in BeamTypes, i \in 1..NumGuesses : CallFindRoot(bt, i)
  \/ PassFindRoot
  \/ ReturnFindRoot

\* The engine is synchronous: a call that has started runs on, pass after
\* pass, and returns when its loop is left.
SpecRoot ==
  RootInit /\ [][RootNext]_vars /\ WF_vars(PassFindRoot) /\ WF_vars(ReturnFindRoot)

\* The modes of one analysis worked on one at a time, in any order: the
\* root of guess i from solveCharacteristicEquation's loop, and for a guess
\* with a root its frequency and its mode shape from calculateBeamAnalysis's
\* maps.  The analyses are of the default beam at three lengths.
TaskModes == {2, 3}
TaskLengths == {Canon(1, -3), Canon(1, -2), Canon(1, -1)}

\* Every mode of the analysis has been worked on.
ModesDone ==
  \A i \in DOMAIN tasks.root :
    /\ tasks.root[i] # Pending
    /\ tasks.root[i] # Null => tasks.mode[i] # Pending

\* An analysis of n modes starts: the guesses i < numModes, i < guesses.length.
StartModes(bt, length, n) ==
  /\ IF tasks = Null THEN TRUE ELSE ModesDone
  /\ tasks' = [beamType |-> bt,
               properties |-> [DefaultProperties EXCEPT !.length = length],
               numModes |-> n,
               root |-> [i \in 1..(IF n < NumGuesses THEN n ELSE NumGuesses) |-> Pending],
               mode |-> [i \in 1..(IF n < NumGuesses THEN n ELSE NumGuesses) |-> Pending],
               order |-> <<>>]
  /\ UNCHANGED <<equations, args, results, first, callsSince, deflection,
               sampling, pointLoad, search, page>>

\* A root search whose pass count is shared by the guesses of the analysis:
\* the passes one search has made are not there for the next.
SolveModeSharedCount(i) ==
  /\ IF tasks = Null THEN FALSE
     ELSE i \in DOMAIN tasks.root /\ tasks.root[i] = Pending
  /\ LET pattern == equations[tasks.beamType]
         Bracket(j) == findRootStart(initialGuesses(tasks.beamType)[j] - HalfBracket,
                                     initialGuesses(tasks.beamType)[j] + HalfBracket)
         Made(j) == IF j \in DOMAIN tasks.root /\ j # i
                    THEN IF tasks.root[j] # Pending
                         THEN findRootLoop(pattern, tasks.beamType, Bracket(j)).i
                         ELSE 0
                    ELSE 0
         made == Made(1) + Made(2) + Made(3) + Made(4) + Made(5)
         start == [Bracket(i) EXCEPT !.i = IF made < maxIterations THEN made
                                            ELSE maxIterations]
     IN tasks' = [tasks EXCEPT
                    !.root[i] = findRootReturn(pattern, tasks.beamType,
                                  findRootLoop(pattern, tasks.beamType, start)),
                    !.order = Append(@, <<"root", i>>)]
  /\ UNCHANGED <<equations, args, results, first, callsSince, deflection,
               sampling, pointLoad, search, page>>

\* findRoot on the bracket of guess i.
SolveMode(i) ==
  /\ IF tasks = Null THEN FALSE
     ELSE i \in DOMAIN tasks.root /\ tasks.root[i] = Pending
  /\ tasks' = [tasks EXCEPT
                 !.root[i] = rootOfGuess[equations[tasks.beamType], tasks.beamType, i],
                 !.order = Append(@, <<"root", i>>)]
  /\ UNCHANGED <<equations, args, results, first, callsSince, deflection,
               sampling, pointLoad, search, page>>

\* The frequency and the mode shape of the root of guess i.
ShapeMode(i) ==
  /\ IF tasks = Null THEN FALSE
     ELSE /\ i \in DOMAIN tasks.root
          /\ tasks.root[i] # Pending
          /\ tasks.root[i] # Null
          /\ tasks.mode[i] = Pending
  /\ tasks' = [tasks EXCEPT
                 !.mode[i] = [frequency |-> frequencyOf(tasks.root[i].bL, tasks.properties),
                              shape |-> modeShape(tasks.beamType, tasks.root[i].bL,
                                                  tasks.properties.length)],
                 !.order = Append(@, <<"shape", i>>)]
  /\ UNCHANGED <<equations, args, results, first, callsSince, deflection,
               sampling, pointLoad, search, page>>

ModesInit ==
  /\ equations \in EquationFamily
  /\ args = [beamType |-> "cantilever", properties |-> DefaultProperties,
             numModes |-> 3]
  /\ results = Null
  /\ first = NoCall
  /\ callsSince = 0
  /\ deflection = Null
  /\ sampling = Null
  /\ pointLoad = I(DefaultLoad)
  /\ search = Null
  /\ tasks = Null
  /\ page = Null

ModesNext ==
  \/ \E bt \in BeamTypes, length \in TaskLengths, n \in TaskModes :
       StartModes(bt, length, n)
  \/ \E i \in 1..NumGuesses : SolveMode(i)
  \/ \E i \in 1..NumGuesses : ShapeMode(i)

SpecModes == ModesInit /\ [][ModesNext]_vars

\* The page (Home).  Its state is the beam type and the properties, kept in
\* args with the mode count 3 it always asks for, the memoized results, and
\* in `page` the active tab, what the last render showed, the arguments the
\* memo was computed for, the call of the engine the last render made if it
\* made one, and where React is:
\* a render is due after a change of state ("render"), the effects after a
\* render ("effect"), and then the page waits for the user ("idle").
Tabs == {"modes", "static", "damping"}

\* What the user types into a field of the form.
FormTexts(key) ==
  CASE key = "length" -> {"", "-1", "0", "0.125", "0.25", "0.5"}
    [] key = "width" -> {"0", "0.1015625"}
    [] key = "depth" -> {"0", "0.296875", "1e-120"}
    [] key = "youngsModulus" -> {"", "49283072"}
    [] key = "density" -> {"0", "7808"}

FormKeys == {"length", "width", "depth", "youngsModulus", "density"}

\* parseFloat of those texts: the number written, NaN for a text that is not
\* a number.  1e-120 is 41 * 2^-404 to six bits.
parseFloat(text) ==
  CASE text = "-1" -> I(-1)
    [] text = "0" -> I(0)
    [] text = "0.125" -> Canon(1, -3)
    [] text = "0.25" -> Canon(1, -2)
    [] text = "0.5" -> Canon(1, -1)
    [] text = "0.1015625" -> Canon(13, -7)
    [] text = "0.296875" -> Canon(19, -6)
    [] text = "1e-120" -> Canon(41, -404)
    [] text = "49283072" -> Canon(47, 20)
    [] text = "7808" -> Canon(61, 7)
    [] OTHER -> NaN

\* value || 0: NaN and 0 are falsy.
OrZero(value) == IF IsNaN(value) \/ value = I(0) THEN I(0) ELSE value

\* onChange of a field: updateProperty(key, parseFloat(e.target.value) || 0),
\* which hands a copy of the properties with the one value replaced to
\* setProperties.
UpdateProperty(key, text) ==
  /\ IF page = Null THEN FALSE ELSE page.phase = "idle"
  /\ args' = [args EXCEPT !.properties[key] = OrZero(parseFloat(text))]
  /\ page' = [page EXCEPT !.phase = "render"]
  /\ UNCHANGED <<equations, results, first, callsSince, deflection, sampling,
               pointLoad, search, tasks>>

\* The beam type selector: setBeamType.
ChooseBeamType(bt) ==
  /\ IF page = Null THEN FALSE ELSE page.phase = "idle"
  /\ args' = [args EXCEPT !.beamType = bt]
  /\ page' = [page EXCEPT !.phase = "render"]
  /\ UNCHANGED <<equations, results, first, callsSince, deflection, sampling,
               pointLoad, search, tasks>>

\* The tab buttons the render shows for the results r: all of them only
\* with results, 'static' and 'damping' only with their data.
Buttons(r) ==
  IF r = Null THEN {}
  ELSE {"modes"} \cup (IF r.staticDeflection # Null THEN {"static"} ELSE {})
                 \cup (IF r.dampedResponse # Null THEN {"damping"} ELSE {})

\* A click on a tab button that is shown: setActiveTab(tab).
ClickTab(tab) ==
  /\ IF page = Null THEN FALSE
     ELSE page.phase = "idle" /\ tab \in Buttons(results)
  /\ page' = [page EXCEPT !.activeTab = tab, !.phase = "render"]
  /\ UNCHANGED <<equations, args, results, first, callsSince, deflection,
               sampling, pointLoad, search, tasks>>

\* The right column of the render for the results r and the tab: the
\* placeholder without results, else the chart of the tab if it has data.
ViewOf(r, tab) ==
  IF r = Null THEN "placeholder"
  ELSE IF tab = "modes" THEN "modes"
  ELSE IF tab = "static" /\ r.staticDeflection # Null THEN "static"
  ELSE IF tab = "damping" /\ r.dampedResponse # Null THEN "damping"
  ELSE "none"

\* try { return ... } catch (error) { ...; return null; }
Caught(r) == IF r = RangeError THEN Null ELSE r

\* The memo's function without its guard on the five values.
memoUnguarded(beamType, properties) ==
  [results |-> Caught(calculateBeamAnalysis(equations[beamType], beamType,
                                            properties, 3)),
   called |-> [beamType |-> beamType, properties |-> properties, numModes |-> 3]]

\* The function of useMemo: the engine is called for 3 modes when the five
\* values are positive, and what it throws is caught; null otherwise.  With
\* the results goes the call made, if one was.
memo(beamType, properties) ==
  IF /\ Gt(properties.length, I(0))
     /\ Gt(properties.width, I(0))
     /\ Gt(properties.depth, I(0))
     /\ Gt(properties.youngsModulus, I(0))
     /\ Gt(properties.density, I(0))
  THEN [results |-> Caught(calculateBeamAnalysis(equations[beamType], beamType,
                                                 properties, 3)),
        called |-> [beamType |-> beamType, properties |-> properties,
                    numModes |-> 3]]
  ELSE [results |-> Null, called |-> NoCall]

\* useMemo with the dependencies deps: the value kept when they are those
\* of the last render, and no call; the function's value otherwise.
useMemo(deps) ==
  IF page.deps = deps THEN [results |-> results, called |-> NoCall]
  ELSE memo(deps.beamType, deps.properties)

\* The render with the memo's value m: the right column is drawn and the
\* effects are due.
Commit(deps, m) ==
  /\ results' = m.results
  /\ page' = [page EXCEPT !.phase = "effect",
                          !.deps = deps,
                          !.called = m.called,
                          !.view = ViewOf(m.results, page.activeTab)]

\* A render of Home: the memo is computed again when the beam type or the
\* properties have changed.
RenderHome ==
  /\ IF page = Null THEN FALSE ELSE page.phase = "render"
  /\ Commit([beamType |-> args.beamType, properties |-> args.properties],
            useMemo([beamType |-> args.beamType, properties |-> args.properties]))
  /\ UNCHANGED <<equations, args, first, callsSince, deflection, sampling,
               pointLoad, search, tasks>>

\* The effect that leaves every tab as it is.
AutoSwitchNever ==
  /\ IF page = Null THEN FALSE ELSE page.phase = "effect"
  /\ page' = [page EXCEPT !.phase = "idle"]
  /\ UNCHANGED <<equations, args, results, first, callsSince, deflection,
               sampling, pointLoad, search, tasks>>

\* The effect after a render: with results, a tab whose data is missing is
\* left for 'modes', which is a change of state and so another render.
AutoSwitch ==
  /\ IF page = Null THEN FALSE ELSE page.phase = "effect"
  /\ IF results # Null
     THEN IF page.activeTab = "static" /\ results.staticDeflection = Null
          THEN page' = [page EXCEPT !.activeTab = "modes", !.phase = "render"]
          ELSE IF page.activeTab = "damping" /\ results.dampedResponse = Null
          THEN page' = [page EXCEPT !.activeTab = "modes", !.phase = "render"]
          ELSE page' = [page EXCEPT !.phase = "idle"]
     ELSE page' = [page EXCEPT !.phase = "idle"]
  /\ UNCHANGED <<equations, args, results, first, callsSince, deflection,
               sampling, pointLoad, search, tasks>>

\* The page as it is mounted: a cantilever of the default properties, the
\* 'modes' tab, and the first render due.
PageInit ==
  /\ equations = CHOOSE f \in EquationFamily : f["cantilever"] = "regular"
  /\ args = [beamType |-> "cantilever", properties |-> DefaultProperties,
             numModes |-> 3]
  /\ results = Null
  /\ first = NoCall
  /\ callsSince = 0
  /\ deflection = Null
  /\ sampling = Null
  /\ pointLoad = I(DefaultLoad)
  /\ search = Null
  /\ tasks = Null
  /\ page = [activeTab |-> "modes", phase |-> "render", deps |-> Null,
             called |-> NoCall, view |-> "none"]

PageNext ==
  \/ \E key \in FormKeys : \E text \in FormTexts(key) : UpdateProperty(key, text)
  \/ \E bt \in BeamTypes : ChooseBeamType(bt)
  \/ \E tab \in Tabs : ClickTab(tab)
  \/ RenderHome
  \/ AutoSwitch

\* React runs the effects after every render.
SpecPage == PageInit /\ [][PageNext]_vars /\ WF_vars(AutoSwitch)

----------------------------------------------------------------------------
(* Properties *)

\* A call of calculateBeamAnalysis has returned its BeamResults.
Returned == results # Pending /\ results # Null /\ results # RangeError

\* The guess brackets the solver's loop visits for a mode count n.
Visited(n) == 1..(IF n < NumGuesses THEN n ELSE NumGuesses)

\* What findRoot returned on bracket i for the current beam type.
RootAt(i) == rootOfGuess[equations[args.beamType], args.beamType, i]

\* The state findRoot's loop ended in on bracket i for the current beam type.
LoopEnd(i) ==
  LET g == initialGuesses(args.beamType)[i]
  IN findRootLoop(equations[args.beamType], args.beamType,
                  findRootStart(g - HalfBracket, g + HalfBracket))

\* The bracket a returned root lies in.
BracketOf(bL) == NearestGuess(initialGuesses(args.beamType), bL, 1)

\* C1: the number of natural frequencies a call returns is at most numModes,
\* at most 5, equal to the number of mode shapes, and equal to the number of
\* the first min(numModes, 5) brackets on which findRoot returned a root.
C1_FrequencyCount ==
  Returned =>
    LET n == Len(results.naturalFrequencies)
    IN /\ n <= args.numModes
       /\ n <= 5
       /\ n = Len(results.modeShapes)
       /\ n = Cardinality({i \in Visited(args.numModes) : RootAt(i) # Null})

\* C1 witness: more modes asked for than there are guesses, and two of the
\* five brackets without a root.
C1_Witness ==
  /\ Returned
  /\ args.numModes > NumGuesses
  /\ Len(results.naturalFrequencies) = 3
  /\ Len(results.modeShapes) = 3

\* C2: the characteristic function of the beam type is below the tolerance
\* in magnitude at every root of a result, whichever return of findRoot
\* produced it.
C2_RootsWithinTolerance ==
  Returned =>
    \A k \in 1..Len(results.modeShapes) :
      Abs(equation(equations[args.beamType], args.beamType,
                   results.modeShapes[k].bL)) < tolerance

\* C2 witness: a result with a root returned inside the loop after some
\* passes and a root accepted by the comparison after the loop.
C2_Witness ==
  /\ Returned
  /\ \E k \in 1..Len(results.modeShapes) :
       LET e == LoopEnd(BracketOf(results.modeShapes[k].bL))
       IN e.at = "return" /\ e.i > 0 /\ e.x = results.modeShapes[k].bL
  /\ \E k \in 1..Len(results.modeShapes) :
       LET e == LoopEnd(BracketOf(results.modeShapes[k].bL))
       IN e.at = "after" /\ e.i = maxIterations /\ e.x = results.modeShapes[k].bL

\* C3: a bracket on which findRoot returns null costs the result that mode
\* only: the roots of the result are the roots of the visited brackets that
\* have one, each later bracket included.
C3_FailedBracketOmittedOnly ==
  Returned =>
    /\ Len(results.naturalFrequencies) = Len(results.modeShapes)
    /\ \A i \in Visited(args.numModes) :
         RootAt(i) # Null =>
           \E k \in 1..Len(results.modeShapes) :
             /\ results.modeShapes[k].bL = RootAt(i).bL
             /\ k = Cardinality({j \in 1..i : RootAt(j) # Null})
    /\ Len(results.modeShapes) =
         Cardinality({i \in Visited(args.numModes) : RootAt(i) # Null})

\* C3 witness: a bracket without a root, and after it a bracket whose root
\* is in the result.
C3_Witness ==
  /\ Returned
  /\ \E i, j \in Visited(args.numModes) :
       /\ i < j
       /\ RootAt(i) = Null
       /\ RootAt(j) # Null
       /\ \E k \in 1..Len(results.modeShapes) :
            results.modeShapes[k].bL = RootAt(j).bL

\* C4: the roots of a result increase strictly with the mode index, and
\* they are in the order of the guesses they came from.
C4_RootsIncreasing ==
  Returned =>
    \A k \in 1..(Len(results.modeShapes) - 1) :
      /\ results.modeShapes[k].bL < results.modeShapes[k + 1].bL
      /\ BracketOf(results.modeShapes[k].bL)
           < BracketOf(results.modeShapes[k + 1].bL)

\* C4 witness: three roots, the brackets of two neighbours not adjacent.
C4_Witness ==
  /\ Returned
  /\ Len(results.modeShapes) = 3
  /\ BracketOf(results.modeShapes[2].bL) > BracketOf(results.modeShapes[1].bL) + 1

\* C5: the damped response is in the result exactly when a damping ratio
\* is supplied, lies strictly between 0 and 1, and there is a natural
\* frequency.
C5_DampedResponsePresence ==
  Returned =>
    LET zeta == args.properties.dampingRatio
    IN (results.dampedResponse # Null)
         <=> /\ zeta # Undefined
             /\ Gt(zeta, I(0))
             /\ Lt(zeta, I(1))
             /\ Len(results.naturalFrequencies) >= 1

\* C5 witness: a result with a damped response of the supplied ratio.
C5_Witness ==
  /\ Returned
  /\ results.dampedResponse # Null
  /\ results.dampedResponse.dampingRatio = args.properties.dampingRatio
  /\ Len(results.naturalFrequencies) >= 1

\* C6: whenever a damping ratio is supplied and there is a natural
\* frequency, the damping coefficient of the result is not null.
C6_CoefficientWheneverSupplied ==
  Returned =>
    ((args.properties.dampingRatio # Undefined
        /\ Len(results.naturalFrequencies) >= 1)
      => results.dampingCoefficient # Null)

\* C7: calculateStaticDeflection returns null when EI <= 0 or length <= 0;
\* otherwise x and y have 301 samples each, x[i] = i * (length / 300),
\* x[0] = 0 and x[300] = length.
C7_StaticSamples ==
  (deflection # Pending /\ results = Null) =>
    LET p == args.properties
        EI == Mul(p.youngsModulus,
                  Div(Mul(p.width, MathPow(p.depth, 3)), I(12)))
    IN IF Le(EI, I(0)) \/ Le(p.length, I(0))
       THEN deflection = Null
       ELSE /\ deflection # Null
            /\ Len(deflection.x) = 301
            /\ Len(deflection.y) = 301
            /\ \A i \in 0..300 :
                 deflection.x[i + 1] = Mul(I(i), Div(p.length, I(300)))
            /\ deflection.x[1] = I(0)
            /\ deflection.x[301] = p.length

\* The two calls kept and current have the same arguments but for the
\* damping ratio.
SameButDamping ==
  [first.args EXCEPT !.properties.dampingRatio = args.properties.dampingRatio]
    = args

\* C8: two calls that differ only in the damping ratio return the same
\* natural frequencies, mode shapes, flexural rigidity, mass per unit length
\* and static deflection; and two calls on the same beam return a static
\* deflection or none alike, whatever the mode counts and the roots found.
C8_DampingOnlyOwnField ==
  (first # NoCall /\ Returned) =>
    /\ SameButDamping =>
         /\ first.results.naturalFrequencies = results.naturalFrequencies
         /\ first.results.modeShapes = results.modeShapes
         /\ first.results.flexuralRigidity = results.flexuralRigidity
         /\ first.results.massPerUnitLength = results.massPerUnitLength
         /\ first.results.staticDeflection = results.staticDeflection
    /\ Geometry(first.args.properties) = Geometry(args.properties) =>
         ((first.results.staticDeflection = Null)
            <=> (results.staticDeflection = Null))

\* C8 witness: a call with a valid ratio and a damped response, then the
\* same call with a ratio out of range, which has no damped response and
\* has its frequencies and its static deflection.
C8_Witness ==
  /\ first # NoCall
  /\ Returned
  /\ SameButDamping
  /\ first.results.dampedResponse # Null
  /\ args.properties.dampingRatio # Undefined
  /\ results.dampedResponse = Null
  /\ results.staticDeflection # Null
  /\ Len(results.naturalFrequencies) >= 1

PositiveProperties(properties) ==
  /\ Gt(properties.length, I(0))
  /\ Gt(properties.width, I(0))
  /\ Gt(properties.depth, I(0))
  /\ Gt(properties.youngsModulus, I(0))
  /\ Gt(properties.density, I(0))

\* C11: for every beam type, every mode count and all properties whose
\* length, width, depth, modulus and density are positive, a call of
\* calculateBeamAnalysis returns a BeamResults record and raises nothing.
\* The code raises when a beam has more samples than one call of Math.max
\* takes arguments.
C11_NeverRaises ==
  (results # Pending /\ PositiveProperties(args.properties))
    => /\ results # RangeError
       /\ DOMAIN results =
            {"naturalFrequencies", "modeShapes", "flexuralRigidity",
             "massPerUnitLength", "staticDeflection", "dampingCoefficient",
             "dampedResponse"}

\* A direct call of calculateModeShape on a beam of positive length has
\* returned its samples.
ShapeReturned ==
  /\ sampling # Null
  /\ sampling.returned # Pending
  /\ sampling.returned # RangeError
  /\ Gt(sampling.length, I(0))

\* The samples the loop of that call pushed, before normalization.
RawSamples ==
  sampled(sampling.beamType, GridNumber(sampling.bL),
          Div(GridNumber(sampling.bL), sampling.length), sampling.returned.x)

\* C12: in every mode shape returned each normalized displacement w[i] lies
\* in [-1, 1] and the largest |w[i]| is exactly 1, unless every raw sample
\* is exactly 0, and then the samples are returned as they were.
C12_NormalizedShapes ==
  ShapeReturned =>
    /\ \A i \in 1..Len(sampling.returned.w) :
         /\ Le(I(-1), sampling.returned.w[i])
         /\ Le(sampling.returned.w[i], I(1))
    /\ IF \A i \in 1..Len(RawSamples) : RawSamples[i] = I(0)
       THEN \A i \in 1..Len(RawSamples) : sampling.returned.w[i] = RawSamples[i]
       ELSE \E i \in 1..Len(sampling.returned.w) : MathAbs(sampling.returned.w[i]) = I(1)

\* C12 witness: a returned shape of several samples, one of them exactly 1
\* or -1 and another strictly between 0 and 1 in size, which differs from
\* its raw sample.
C12_Witness ==
  /\ ShapeReturned
  /\ Len(sampling.returned.w) > 2
  /\ \E i \in 1..Len(sampling.returned.w) : MathAbs(sampling.returned.w[i]) = I(1)
  /\ \E i \in 1..Len(sampling.returned.w) :
       /\ Lt(I(0), MathAbs(sampling.returned.w[i]))
       /\ Lt(MathAbs(sampling.returned.w[i]), I(1))
       /\ sampling.returned.w[i] # RawSamples[i]

\* A direct call of calculateStaticDeflection has returned its samples.
DeflectionReturned == deflection # Pending /\ deflection # Null

\* C13: for simply-supported and fixed-fixed beams the static deflection is
\* mirror symmetric on the sample grid: y[i] = y[300 - i] for every sample
\* index i in 0..300.  The code evaluates the right half at length - pos,
\* which rounds differently from the mirrored sample position.
C13_MirrorSymmetric ==
  (DeflectionReturned /\ args.beamType \in {"simply-supported", "fixed-fixed"})
    => \A i \in 0..numPoints :
         deflection.y[i + 1] = deflection.y[numPoints - i + 1]

\* C14: for a simply-supported beam of positive length and rigidity the
\* extremum of the static deflection under the midspan load is reported at
\* x = length / 2 exactly, and maxDeflection is y at the midspan sample.
\* The code reports the sample position 150 * (length / 300), which rounding
\* can leave beside length / 2.
C14_MaximumAtMidspan ==
  (DeflectionReturned /\ args.beamType = "simply-supported" /\ pointLoad # I(0))
    => /\ deflection.maxDeflectionLocation = Div(args.properties.length, I(2))
       /\ deflection.maxDeflection = deflection.y[numPoints \div 2 + 1]

\* A call on positive properties has returned a damped response.
Responded ==
  /\ Returned
  /\ PositiveProperties(args.properties)
  /\ results.dampedResponse # Null

\* |displacement[i]| is at most the upper envelope of envelope sample k.
Within(response, i, k) ==
  Le(MathAbs(response.displacement[i + 1]), response.envelope.upper[k + 1])

\* C15 as stated: in every damped response |displacement[i]| is at most the
\* upper envelope of the envelope sample nearest in time to time[i], for
\* every i in 0..1000 (either neighbour where i is halfway between two), and
\* displacement[0] is the initial amplitude.
C15_WithinNearestEnvelope ==
  Responded =>
    /\ results.dampedResponse.displacement[1] = I(1)
    /\ \A i \in 0..responsePoints :
         \/ i % 10 <= 5 /\ Within(results.dampedResponse, i, i \div 10)
         \/ i % 10 >= 5 /\ Within(results.dampedResponse, i, i \div 10 + 1)

\* C15, amended: in every damped response |displacement[i]| is at most the
\* upper envelope of the latest envelope sample at or before time[i], that
\* of index floor(i / 10), for every i in 0..1000, and displacement[0] is
\* the initial amplitude.
C15_WithinPrecedingEnvelope ==
  Responded =>
    /\ results.dampedResponse.displacement[1] = I(1)
    /\ \A i \in 0..responsePoints : Within(results.dampedResponse, i, i \div 10)

\* C15 witness: a response whose envelope decays, with a sample between two
\* envelope samples that is not zero, lies within the envelope sample before
\* it and exceeds the one after it, which is the nearest.
C15_Witness ==
  /\ Responded
  /\ Lt(results.dampedResponse.envelope.upper[responsePoints \div 10 + 1],
        results.dampedResponse.envelope.upper[1])
  /\ \E i \in 0..responsePoints :
       /\ i % 10 > 5
       /\ results.dampedResponse.displacement[i + 1] # I(0)
       /\ Within(results.dampedResponse, i, i \div 10)
       /\ ~Within(results.dampedResponse, i, i \div 10 + 1)

\* The duration the call that returned passed to calculateDampedResponse.
DurationPassed ==
  responseDuration(results.naturalFrequencies[1], args.properties.dampingRatio)

\* C16: every damped response has exactly 1001 time samples and 1001
\* displacement samples, time[i] being i times the step duration / 1000, and
\* an envelope of exactly 101 samples, one for every 10th time index:
\* envelope.time[k] = time[10k], upper and lower are as long as
\* envelope.time, and lower[k] = -upper[k] for every k.
C16_ResponseSamples ==
  Responded =>
    /\ Len(results.dampedResponse.time) = responsePoints + 1
    /\ Len(results.dampedResponse.displacement) = responsePoints + 1
    /\ \A i \in 0..responsePoints :
         results.dampedResponse.time[i + 1]
           = Mul(I(i), Div(DurationPassed, I(responsePoints)))
    /\ Len(results.dampedResponse.envelope.time) = responsePoints \div 10 + 1
    /\ Len(results.dampedResponse.envelope.upper) = responsePoints \div 10 + 1
    /\ Len(results.dampedResponse.envelope.lower) = responsePoints \div 10 + 1
    /\ \A k \in 0..(responsePoints \div 10) :
         /\ results.dampedResponse.envelope.time[k + 1]
              = results.dampedResponse.time[10 * k + 1]
         /\ results.dampedResponse.envelope.lower[k + 1]
              = Neg(results.dampedResponse.envelope.upper[k + 1])

\* C16 witness: a response over a duration that is not clamped, whose
\* envelope samples differ from one another and from zero.
C16_Witness ==
  /\ Responded
  /\ Gt(DurationPassed, I(5))
  /\ Lt(DurationPassed, I(60))
  /\ results.dampedResponse.time[responsePoints + 1] # I(0)
  /\ Lt(I(0), results.dampedResponse.envelope.upper[responsePoints \div 10 + 1])
  /\ Lt(results.dampedResponse.envelope.upper[2],
        results.dampedResponse.envelope.upper[1])
  /\ Lt(results.dampedResponse.envelope.lower[2], I(0))

\* C17: the duration passed to the damped response is
\* min(60, max(15 * period, 3 * tau, 5)), so for every valid input it lies
\* in [5, 60] and the last time sample equals it.  The last sample is
\* 1000 * (duration / 1000), which rounding can leave beside the duration.
C17_DurationAndLastSample ==
  Responded =>
    /\ Ge(DurationPassed, I(5))
    /\ Le(DurationPassed, I(60))
    /\ results.dampedResponse.time[responsePoints + 1] = DurationPassed

\* The largest n for which n steps do not pass length.
StepsWithin(length) ==
  CHOOSE n \in 0..(2 * MaxArguments) :
    /\ Le(Mul(I(n), DefaultDx), length)
    /\ \A j \in (n + 1)..(2 * MaxArguments) : ~Le(Mul(I(j), DefaultDx), length)

\* C18: in every mode shape x and w have the same length, x[0] = 0,
\* consecutive positions differ by the step 0.01, every position is at most
\* length and the sampling goes on while it is, so that the final position
\* is the largest multiple of the step that is at most length (length itself
\* when it is a multiple); and the mode shapes of one result share their x.
\* The code accumulates the step (pos += dx) and its rounding, and stops
\* before the last multiple.
C18_UniformGrid ==
  (Returned /\ PositiveProperties(args.properties)) =>
    \A k \in 1..Len(results.modeShapes) :
      /\ Len(results.modeShapes[k].x) = Len(results.modeShapes[k].w)
      /\ results.modeShapes[k].x[1] = I(0)
      /\ \A i \in 1..(Len(results.modeShapes[k].x) - 1) :
           Sub(results.modeShapes[k].x[i + 1], results.modeShapes[k].x[i]) = DefaultDx
      /\ \A i \in 1..Len(results.modeShapes[k].x) :
           Le(results.modeShapes[k].x[i], args.properties.length)
      /\ Len(results.modeShapes[k].x) = StepsWithin(args.properties.length) + 1
      /\ results.modeShapes[k].x[Len(results.modeShapes[k].x)]
           = Mul(I(StepsWithin(args.properties.length)), DefaultDx)
      /\ results.modeShapes[k].x = results.modeShapes[1].x

\* The kept call and the current one have returned results, and differ at
\* most in the modulus and the length.
ScaledPair ==
  /\ first # NoCall
  /\ Returned
  /\ first.results # Null
  /\ first.results # RangeError
  /\ [first.args EXCEPT !.properties.youngsModulus = args.properties.youngsModulus,
                        !.properties.length = args.properties.length] = args

\* C19: with the beam type, the mode count and the other properties fixed,
\* four times the modulus doubles every natural frequency, and twice the
\* length divides every natural frequency by 4.
C19_FrequencyScaling ==
  ScaledPair =>
    /\ Len(results.naturalFrequencies) = Len(first.results.naturalFrequencies)
    /\ (/\ args.properties.youngsModulus
             = Mul(I(4), first.args.properties.youngsModulus)
        /\ args.properties.length = first.args.properties.length)
         => \A k \in 1..Len(results.naturalFrequencies) :
              results.naturalFrequencies[k]
                = Mul(I(2), first.results.naturalFrequencies[k])
    /\ (/\ args.properties.length = Mul(I(2), first.args.properties.length)
        /\ args.properties.youngsModulus = first.args.properties.youngsModulus)
         => \A k \in 1..Len(results.naturalFrequencies) :
              results.naturalFrequencies[k]
                = Div(first.results.naturalFrequencies[k], I(4))

\* C19 witness: a kept call with three frequencies and a later call on a
\* beam twice as long, whose frequencies are a quarter of the kept ones.
C19_Witness ==
  /\ ScaledPair
  /\ args.properties.length = Mul(I(2), first.args.properties.length)
  /\ args.properties.youngsModulus = first.args.properties.youngsModulus
  /\ Len(results.naturalFrequencies) >= 2
  /\ Gt(results.naturalFrequencies[1], I(0))
  /\ results.naturalFrequencies[1] = Div(first.results.naturalFrequencies[1], I(4))
  /\ results.naturalFrequencies[2] # first.results.naturalFrequencies[2]

C23_FirstExtremum ==
  DeflectionReturned =>
    IF \A i \in 1..Len(deflection.y) : deflection.y[i] = I(0)
    THEN /\ deflection.maxDeflection = I(0)
         /\ deflection.maxDeflectionLocation = I(0)
    ELSE \E j \in 1..Len(deflection.y) :
           /\ deflection.maxDeflection = deflection.y[j]
           /\ deflection.maxDeflectionLocation = deflection.x[j]
           /\ \A i \in 1..Len(deflection.y) :
                Ge(MathAbs(deflection.y[j]), MathAbs(deflection.y[i]))
           /\ \A i \in 1..(j - 1) :
                Lt(MathAbs(deflection.y[i]), MathAbs(deflection.y[j]))

\* C23 witness: a deflection under an upward load whose greatest magnitude
\* is taken by two samples, the first of them reported.
C23_Witness ==
  /\ DeflectionReturned
  /\ Lt(deflection.maxDeflection, I(0))
  /\ \E i, j \in 1..Len(deflection.y) :
       /\ i < j
       /\ deflection.y[i] = deflection.maxDeflection
       /\ deflection.y[j] = deflection.maxDeflection
       /\ deflection.x[i] = deflection.maxDeflectionLocation

\* A deflection under no load is 0 everywhere.
C23_Unloaded ==
  /\ DeflectionReturned
  /\ pointLoad = I(0)
  /\ \A i \in 1..Len(deflection.y) : deflection.y[i] = I(0)

\* A call of findRoot is under way, and one has returned.
Searching == IF search = Null THEN FALSE ELSE search.returned = Pending
Searched == IF search = Null THEN FALSE ELSE search.returned # Pending

\* The characteristic function of the call of findRoot, at x.
SearchEquation(x) == equation(equations[search.beamType], search.beamType, x)

\* C22: findRoot always terminates: its loop makes at most 100 passes, after
\* which it returns an x with |f(x)| < tolerance, or null.
C22_Terminates ==
  /\ [](Searching \/ Searched => search.st.i <= maxIterations)
  /\ [](Searched =>
          \/ search.returned = Null
          \/ Abs(SearchEquation(search.returned.bL)) < tolerance)
  /\ (Searching ~> Searched)

\* C22 witness: a root returned by the final check after all 100 passes
\* were used.
C22_Witness ==
  /\ Searched
  /\ search.returned # Null
  /\ search.st.at = "after"
  /\ search.st.i = maxIterations

\* The bracket findRoot was called with.
SearchGuess == initialGuesses(search.beamType)[search.guess]

\* C24: at the start of every pass of findRoot's loop lowerBound <= x <=
\* upperBound, and the bracket lies within the one findRoot was called with
\* and only shrinks; so a root returned for guess g lies in [g - 0.5, g + 0.5].
C24_WithinBracket ==
  /\ [](Searching \/ Searched =>
          /\ search.st.at = "loop" =>
               /\ search.st.lowerBound <= search.st.x
               /\ search.st.x <= search.st.upperBound
          /\ SearchGuess - HalfBracket <= search.st.lowerBound
          /\ search.st.lowerBound <= search.st.upperBound
          /\ search.st.upperBound <= SearchGuess + HalfBracket)
  /\ [](Searched /\ search.returned # Null =>
          /\ SearchGuess - HalfBracket <= search.returned.bL
          /\ search.returned.bL <= SearchGuess + HalfBracket)
  /\ [][Searching /\ search'.returned = Pending =>
          /\ search'.st.lowerBound >= search.st.lowerBound
          /\ search'.st.upperBound <= search.st.upperBound]_vars

\* C24 witness: a root away from the guess, returned after passes that
\* shrank the bracket.
C24_Witness ==
  /\ Searched
  /\ search.returned # Null
  /\ search.returned.bL # SearchGuess
  /\ search.st.upperBound - search.st.lowerBound < 2 * HalfBracket

\* The Newton step findRoot computes at x, on the grid.
NewtonStep(x) ==
  x - RoundDiv(SearchEquation(x) * 2 * h, SearchEquation(x + h) - SearchEquation(x - h))

\* The pass of the loop that starts in this state gets as far as the Newton
\* step, and the step leaves the bracket.
StepLeavesBracket ==
  /\ Searching
  /\ search.st.at = "loop"
  /\ search.st.i < maxIterations
  /\ Abs(SearchEquation(search.st.x)) >= tolerance
  /\ Abs(SearchEquation(search.st.x + h) - SearchEquation(search.st.x - h)) * 1000000 >= 2 * h
  /\ \/ NewtonStep(search.st.x) < search.st.lowerBound
     \/ NewtonStep(search.st.x) > search.st.upperBound

\* C25: a Newton step that leaves the bracket is replaced by a bisection:
\* x becomes the midpoint, which becomes the upper bound when f(lowerBound)
\* and f(x) differ in sign and the lower bound otherwise; and when the ends
\* of the bracket had opposite signs before, f(lowerBound) * f(upperBound)
\* <= 0 after.
C25_BisectionKeepsRoot ==
  [][StepLeavesBracket =>
       LET lo == search.st.lowerBound
           hi == search.st.upperBound
           mid == (lo + hi) \div 2
       IN /\ search'.st.x = mid
          /\ IF SearchEquation(lo) * SearchEquation(mid) < 0
             THEN search'.st.upperBound = mid /\ search'.st.lowerBound = lo
             ELSE search'.st.lowerBound = mid /\ search'.st.upperBound = hi
          /\ SearchEquation(lo) * SearchEquation(hi) < 0 =>
               SearchEquation(search'.st.lowerBound)
                 * SearchEquation(search'.st.upperBound) <= 0]_vars

\* C25 witness: a second bisection has moved the upper bound, on a bracket
\* whose ends differed in sign before it and differ after it.
C25_Witness ==
  /\ Searching
  /\ search.st.i >= 2
  /\ search.st.x = search.st.upperBound
  /\ search.st.upperBound < SearchGuess
  /\ SearchEquation(search.st.lowerBound) * SearchEquation(SearchGuess) < 0
  /\ SearchEquation(search.st.lowerBound) * SearchEquation(search.st.upperBound) < 0

\* The loop of the call was left by the stop on a flat derivative: before
\* its passes ran out, and not by a return.
FlatStop ==
  /\ Searching \/ Searched
  /\ search.st.at = "after"
  /\ search.st.i < maxIterations

\* C26: when findRoot leaves its loop through the stop on a flat derivative
\* (|f'(x)| < 1e-10) it returns null: the final check is made at the x whose
\* |f(x)| was just found not below the tolerance.
C26_FlatStopReturnsNull ==
  /\ FlatStop =>
       /\ Abs(SearchEquation(search.st.x)) >= tolerance
       /\ Abs(SearchEquation(search.st.x + h) - SearchEquation(search.st.x - h))
            * 1000000 < 2 * h
  /\ FlatStop /\ Searched => search.returned = Null

\* C26 witness: a call that left its loop on a flat derivative has returned.
C26_Witness == FlatStop /\ Searched

\* C27: the mode numbers of a result are consecutive from 1, in the order of
\* the roots: modeShapes[i].mode = i + 1, and naturalFrequencies[i] is the
\* frequency of the root modeShapes[i].bL.  The number is the root's place
\* among the roots found, not its guess: after a guess without a root the
\* later roots move up.
C27_ModesNumberedFromOne ==
  Returned =>
    /\ Len(results.naturalFrequencies) = Len(results.modeShapes)
    /\ \A k \in 1..Len(results.modeShapes) :
         /\ results.modeShapes[k].mode = k
         /\ results.naturalFrequencies[k]
              = frequencyOf(results.modeShapes[k].bL, args.properties)
         /\ results.modeShapes[k].mode
              = Cardinality({j \in 1..BracketOf(results.modeShapes[k].bL) :
                               RootAt(j) # Null})

\* C27 witness: a result with two roots or more, one of them numbered below
\* its guess, and the frequencies of two modes different.
C27_Witness ==
  /\ Returned
  /\ Len(results.modeShapes) >= 2
  /\ \E k \in 1..Len(results.modeShapes) :
       results.modeShapes[k].mode < BracketOf(results.modeShapes[k].bL)
  /\ results.naturalFrequencies[1] # results.naturalFrequencies[2]

\* C28: the roots depend on the beam type and the mode count only: two calls
\* with the same beam type and mode count, on whatever beams, return the
\* same number of modes and the same roots bL.
C28_RootsIgnoreProperties ==
  (/\ first # NoCall
   /\ Returned
   /\ first.results # Null
   /\ first.results # RangeError
   /\ first.args.beamType = args.beamType
   /\ first.args.numModes = args.numModes)
    => /\ Len(results.modeShapes) = Len(first.results.modeShapes)
       /\ Len(results.naturalFrequencies) = Len(first.results.naturalFrequencies)
       /\ \A k \in 1..Len(results.modeShapes) :
            results.modeShapes[k].bL = first.results.modeShapes[k].bL

\* C28 witness: two calls for three modes on beams of different length and
\* modulus, with the same roots and other frequencies.
C28_Witness ==
  /\ first # NoCall
  /\ Returned
  /\ first.results # Null
  /\ first.results # RangeError
  /\ first.args.beamType = args.beamType
  /\ first.args.numModes = args.numModes
  /\ first.args.properties.length # args.properties.length
  /\ first.args.properties.youngsModulus # args.properties.youngsModulus
  /\ Len(results.modeShapes) >= 2
  /\ results.modeShapes[2].bL = first.results.modeShapes[2].bL
  /\ results.naturalFrequencies[2] # first.results.naturalFrequencies[2]

\* The analysis worked on mode by mode has all its modes, and the guesses
\* that have a root.
ModesAssembled == IF tasks = Null THEN FALSE ELSE ModesDone
Found == {i \in DOMAIN tasks.root : tasks.root[i] # Null}

\* The k-th guess that has a root.
Place(k) == CHOOSE i \in Found : Cardinality({j \in Found : j <= i}) = k

\* C21: the root and the shape of a mode depend on no other mode: worked
\* on in any order and put together by guess index, they are the roots, the
\* frequencies and the mode shapes that the engine's loops return.
C21_ModesIndependent ==
  ModesAssembled =>
    LET sequential == calculateBeamAnalysis(equations[tasks.beamType], tasks.beamType,
                                            tasks.properties, tasks.numModes)
    IN IF sequential = RangeError
       THEN \E i \in Found : tasks.mode[i].shape = RangeError
       ELSE /\ Len(sequential.modeShapes) = Cardinality(Found)
            /\ Len(sequential.naturalFrequencies) = Cardinality(Found)
            /\ \A k \in 1..Cardinality(Found) :
                 /\ sequential.modeShapes[k]
                      = numbered(k, tasks.root[Place(k)].bL, tasks.mode[Place(k)].shape)
                 /\ sequential.naturalFrequencies[k] = tasks.mode[Place(k)].frequency

\* C21 witness: the last guess was searched first and the shape of its root
\* taken before the first guess was searched; a guess between them has no
\* root; and the modes are all there.
C21_Witness ==
  /\ ModesAssembled
  /\ Len(tasks.order) >= 5
  /\ tasks.order[1] = <<"root", 3>>
  /\ tasks.order[2] = <<"shape", 3>>
  /\ tasks.root[2] = Null
  /\ tasks.mode[1] # Pending
  /\ tasks.mode[1].shape # RangeError

\* The page has rendered the state it is in.
Rendered == IF page = Null THEN FALSE ELSE page.phase # "render"

\* C29: the page calls calculateBeamAnalysis only with length, width, depth,
\* modulus and density all positive, and always for 3 modes; and whenever
\* one of the five is not positive, or the engine threw, the results are
\* null and the placeholder is shown in place of the charts.
C29_PageGuardsEngine ==
  /\ (IF page = Null THEN FALSE ELSE page.called # NoCall) =>
       /\ PositiveProperties(page.called.properties)
       /\ page.called.numModes = 3
  /\ Rendered =>
       ((\/ ~PositiveProperties(args.properties)
         \/ calculateBeamAnalysis(equations[args.beamType], args.beamType,
                                  args.properties, 3) = RangeError)
          => results = Null /\ page.view = "placeholder")

\* C29 witness: the engine was called and threw, and the page shows the
\* placeholder.
C29_Witness ==
  /\ Rendered
  /\ page.called # NoCall
  /\ results = Null
  /\ page.view = "placeholder"

\* A value of the form was set to a text that is not a number: the render
\* made no call, and the page shows the placeholder.
C29_NotANumber ==
  /\ Rendered
  /\ args.properties.youngsModulus = I(0)
  /\ page.called = NoCall
  /\ results = Null
  /\ page.view = "placeholder"

\* The active tab is one whose data the results do not have.
TabWithoutData ==
  IF page = Null THEN FALSE
  ELSE /\ results # Null
       /\ \/ page.activeTab = "static" /\ results.staticDeflection = Null
          \/ page.activeTab = "damping" /\ results.dampedResponse = Null

\* C30: once the effect has run, the active tab is not one whose data the
\* results lack: a 'static' tab without a static deflection, or a 'damping'
\* tab without a damped response, is reset to 'modes'; and the effect never
\* leaves the 'modes' tab.
C30_TabHasData ==
  /\ []((IF page = Null THEN FALSE ELSE page.phase = "idle") => ~TabWithoutData)
  /\ (TabWithoutData ~> (page.activeTab = "modes"))
  /\ [][(IF page = Null THEN FALSE
         ELSE page.phase = "effect" /\ page.activeTab = "modes")
          => page'.activeTab = "modes"]_vars

\* C30 witness: the effect has reset the tab: the page is back on 'modes',
\* over results without a static deflection, with the effect run.
C30_Witness ==
  /\ IF page = Null THEN FALSE ELSE page.phase = "idle"
  /\ results # Null
  /\ results.staticDeflection = Null
  /\ page.activeTab = "modes"
  /\ page.view = "modes"

\* The tab is 'static' over results without a static deflection.
C30_Absent == TabWithoutData /\ page.activeTab = "static"

====
